---- MODULE Spec2Model ----
(***************************************************************************)
(* DhartiSetu backend: the model registry (app/models/loader.py), the      *)
(* startup hook (app/main.py) and the prediction routers (app/routers).    *)
(*                                                                         *)
(* Numbers.  Python floats are modelled as scaled integers:                *)
(*   confidence            in hundredths   (0.85 -> 85)                    *)
(*   AQI value, pollutants in tenths       (42.0 -> 420)                   *)
(*   flood probability     in hundredths   (0.74 -> 74)                    *)
(*   flood percentage      in tenths       (74.0 -> 740)                   *)
(*   prices                in hundredths of a rupee                        *)
(* The request values enumerated below are ones for which the scaled       *)
(* integer arithmetic is exact.                                            *)
(***************************************************************************)
EXTENDS Integers, Sequences, FiniteSets, TLC

VARIABLES
    paths,        \* settings.MODEL_PATHS as read by the loader
    outage,       \* (domain, component) artifacts whose fetch or deserialization fails
    water_model,  \* services/water_model.py module global `model` is not None
    models,       \* ModelLoader._models : domain -> component -> predictor
    loaded,       \* ModelLoader._loaded
    ld,           \* per thread: position inside load_all_models
    result,       \* per thread: how its last load_all_models call ended
    fetches,      \* number of hf_hub_download calls made so far
    phase,        \* lifespan: "init" -> "starting" -> "serving"
    resp          \* the last HTTP response produced by a router

vars == <<paths, outage, water_model, models, loaded, ld, result, fetches, phase, resp>>

-----------------------------------------------------------------------------
(* Configuration: app/config.py *)

Art(file, ext) == [file |-> file, ext |-> ext]

MODEL_PATHS ==
    [ aqi           |-> [model |-> Art("aqi/aqi_xgb", ".pkl"),
                         encoder |-> Art("aqi/city_encoder", ".pkl")],
      co2           |-> [model |-> Art("co2/co2_model", ".pkl"),
                         scaler |-> Art("co2/co2_scaler", ".pkl")],
      crop          |-> [model |-> Art("crop/crop_xgboost", ".pkl"),
                         scaler |-> Art("crop/crop_scaler", ".pkl"),
                         encoder |-> Art("crop/crop_label_encoder", ".pkl")],
      flood         |-> [model |-> Art("flood/flood_rf", ".pkl"),
                         encoders |-> Art("flood/flood_encoders", ".pkl")],
      ndvi          |-> [model |-> Art("ndvi/ndvi_rf", ".pkl")],
      plant_disease |-> [model |-> Art("plant_disease/plant_disease", ".h5")],
      price         |-> [model |-> Art("price/crop_price_xgb", ".pkl"),
                         encoders |-> Art("price/price_encoders", ".pkl")],
      profit        |-> [model |-> Art("profit/crop_profit_model", ".pkl"),
                         encoders |-> Art("profit/profit_encoders", ".pkl")],
      rainfall      |-> [model |-> Art("rainfall/rainfall_rf", ".pkl"),
                         encoder |-> Art("rainfall/subdivision_encoder", ".pkl")],
      soil_cnn      |-> [model |-> Art("soil/soil_model", ".pkl")],
      soil_health   |-> [model |-> Art("soil_health/soil_health_xgb", ".pkl"),
                         scaler |-> Art("soil_health/scaler", ".pkl"),
                         encoder |-> Art("soil_health/label_encoder", ".pkl")],
      storm         |-> [model |-> Art("storm/storm_rf", ".pkl"),
                         encoders |-> Art("storm/storm_encoders", ".pkl")],
      water         |-> [model |-> Art("water/water_rf", ".pkl")],
      yield         |-> [model |-> Art("yield/yield_xgb", ".pkl"),
                         encoders |-> Art("yield/label_encoders", ".pkl")] ]

\* dict iteration order of MODEL_PATHS.items() (insertion order)
DomainOrder ==
    << "aqi", "co2", "crop", "flood", "ndvi", "plant_disease", "price",
       "profit", "rainfall", "soil_cnn", "soil_health", "storm", "water", "yield" >>

\* dict iteration order of components.items() inside one model group
ComponentOrder ==
    [ aqi |-> <<"model", "encoder">>,
      co2 |-> <<"model", "scaler">>,
      crop |-> <<"model", "scaler", "encoder">>,
      flood |-> <<"model", "encoders">>,
      ndvi |-> <<"model">>,
      plant_disease |-> <<"model">>,
      price |-> <<"model", "encoders">>,
      profit |-> <<"model", "encoders">>,
      rainfall |-> <<"model", "encoder">>,
      soil_cnn |-> <<"model">>,
      soil_health |-> <<"model", "scaler", "encoder">>,
      storm |-> <<"model", "encoders">>,
      water |-> <<"model">>,
      yield |-> <<"model", "encoders">> ]

\* a mapping with no key (an empty dict)
EmptyDict == [x \in {} |-> x]

\* MODEL_PATHS overridden to an empty mapping (pydantic settings field)
NoPaths == EmptyDict

Configs == {MODEL_PATHS, NoPaths}

\* the keys of cfg in iteration order
KeysInOrder(cfg) == SelectSeq(DomainOrder, LAMBDA d : d \in DOMAIN cfg)

\* every configured (domain, component) pair of MODEL_PATHS
Triples ==
    UNION {{<<d, c>> : c \in DOMAIN MODEL_PATHS[d]} : d \in DOMAIN MODEL_PATHS}

\* the artifact store: within one domain any set of its artifacts is unavailable,
\* while the artifacts of the other domains are all available or all unavailable
Outages ==
    UNION { { {<<d, c>> : c \in S} \cup (IF others_down THEN {t \in Triples : t[1] # d} ELSE {}) :
                S \in SUBSET (DOMAIN MODEL_PATHS[d]), others_down \in BOOLEAN }
            : d \in DOMAIN MODEL_PATHS }

-----------------------------------------------------------------------------
(* Model registry: app/models/loader.py *)

Threads == {"main", "aux"}

Idle == [pc |-> "idle", i |-> 0, j |-> 0]

\* the components of cfg[d] in iteration order
ComponentsInOrder(cfg, d) == SelectSeq(ComponentOrder[d], LAMBDA c : c \in DOMAIN cfg[d])

\* a dispatch whose last branch takes what is left for a pickle
KindElsePickle(art) == IF art.ext \in {".h5", ".keras"} THEN "keras" ELSE "pickle"

\* hf_path.endswith((".h5", ".keras")) / hf_path.endswith(".pkl") / else
Kind(art) ==
    IF art.ext \in {".h5", ".keras"} THEN "keras"
    ELSE IF art.ext = ".pkl" THEN "pickle"
    ELSE "unsupported"

\* the object joblib.load / tf.keras.models.load_model returns for an artifact
Predictor(art) == [artifact |-> art.file, kind |-> Kind(art)]

\* self._models[model_name] = {}
ResetGroup(cat, d) ==
    [x \in DOMAIN cat \cup {d} |-> IF x = d THEN EmptyDict ELSE cat[x]]

\* self._models[model_name][component] = obj
StoreComponent(cat, d, c, obj) ==
    [cat EXCEPT ![d] = [y \in DOMAIN cat[d] \cup {c} |-> IF y = c THEN obj ELSE cat[d][y]]]

\* position of the loop once the outer for has no group left
AfterGroups == [pc |-> "final", i |-> 0, j |-> 0]

\* the outer for loop arrives at group number i
GroupPos(cfg, i) ==
    IF i <= Len(KeysInOrder(cfg)) THEN [pc |-> "group", i |-> i, j |-> 0] ELSE AfterGroups

\* the inner for loop arrives at component number j of group number i
ComponentPos(cfg, i, j) ==
    IF j <= Len(ComponentsInOrder(cfg, KeysInOrder(cfg)[i]))
    THEN [pc |-> "comp", i |-> i, j |-> j]
    ELSE GroupPos(cfg, i + 1)

\* a load failure leaves load_all_models by the exception (no handler)
OnLoadErrorAbort(cfg, pos) == [pos |-> Idle, res |-> "raised"]

\* except Exception: logger.error(...), and the inner loop goes on
OnLoadError(cfg, pos) == [pos |-> ComponentPos(cfg, pos.i, pos.j + 1), res |-> "running"]

\* the guard never skips: every call reloads
AlreadyLoadedNever(flag) == FALSE

\* if self._loaded: return
AlreadyLoaded(flag) == flag

\* `if not self._models` : the catalog has no group at all
NothingLoaded(cat) == DOMAIN cat = {}

\* the flag is set only when some component was loaded
FlagAfterLoadIfAny(cat) == \E d \in DOMAIN cat : DOMAIN cat[d] # {}

\* line 101: self._loaded = True, whatever the catalog holds
FlagAfterLoad(cat) == TRUE

\* lifespan: the try/except around load_all_models swallows every exception, then yields
LifespanAfter(res) == "serving"

\* the lifespan hook goes on when the call it made ends with res
PhaseAfter(t, res) == IF phase = "starting" /\ t = "main" THEN LifespanAfter(res) ELSE phase

\* get_all(model_name): the bundle, or None
None == [none |-> TRUE]

\* a lookup that reports a group without components as absent
get_allNonEmpty(cat, d) == IF d \in DOMAIN cat /\ DOMAIN cat[d] # {} THEN cat[d] ELSE None

get_all(cat, d) == IF d \in DOMAIN cat THEN cat[d] ELSE None

\* get_model(model_name, component): self._models.get(model_name, {}).get(component)
get_model(cat, d, c) ==
    IF d \in DOMAIN cat /\ c \in DOMAIN cat[d] THEN cat[d][c] ELSE None

\* Python truthiness of a bundle returned by get_all: None and {} are falsy
Truthy(bundle) == bundle # None /\ DOMAIN bundle # {}

\* "key" in bundle
Has(bundle, key) == bundle # None /\ key \in DOMAIN bundle

\* entering load_all_models (lines 59-65)
EnterLoad(t) ==
    IF AlreadyLoaded(loaded)
    THEN /\ ld' = ld
         /\ result' = [result EXCEPT ![t] = "skipped"]
    ELSE /\ ld' = [ld EXCEPT ![t] = GroupPos(paths, 1)]
         /\ result' = [result EXCEPT ![t] = "running"]

\* lifespan startup calls load_all_models (main.py:51-55)
Startup ==
    /\ phase = "init"
    /\ ld["main"].pc = "idle"
    /\ EnterLoad("main")
    /\ phase' = IF AlreadyLoaded(loaded) THEN LifespanAfter("skipped") ELSE "starting"
    /\ UNCHANGED <<paths, outage, water_model, models, loaded, fetches, resp>>

\* a direct call of model_loader.load_all_models() (tests/test_models.py:20)
DirectLoad(t) ==
    /\ phase # "starting"
    /\ resp.domain = "none"
    /\ ld[t].pc = "idle"
    /\ EnterLoad(t)
    /\ UNCHANGED <<paths, outage, water_model, models, loaded, fetches, phase, resp>>

\* line 68: self._models[model_name] = {}
BeginGroup(t) ==
    /\ ld[t].pc = "group"
    /\ models' = ResetGroup(models, KeysInOrder(paths)[ld[t].i])
    /\ ld' = [ld EXCEPT ![t] = ComponentPos(paths, ld[t].i, 1)]
    /\ UNCHANGED <<paths, outage, water_model, loaded, result, fetches, phase, resp>>

\* lines 70-90: one iteration of the inner loop
LoadComponent(t) ==
    /\ ld[t].pc = "comp"
    /\ LET d == KeysInOrder(paths)[ld[t].i]
           c == ComponentsInOrder(paths, d)[ld[t].j]
           art == paths[d][c]
           next == [pos |-> ComponentPos(paths, ld[t].i, ld[t].j + 1), res |-> "running"]
       IN IF Kind(art) = "unsupported"
          THEN \* logger.warning; continue
               /\ models' = models
               /\ fetches' = fetches
               /\ ld' = [ld EXCEPT ![t] = next.pos]
               /\ result' = result
               /\ phase' = phase
          ELSE IF <<d, c>> \in outage
          THEN \* hf_hub_download or the deserializer raises
               /\ models' = models
               /\ fetches' = fetches + 1
               /\ ld' = [ld EXCEPT ![t] = OnLoadError(paths, ld[t]).pos]
               /\ result' = [result EXCEPT ![t] = OnLoadError(paths, ld[t]).res]
               /\ phase' = IF OnLoadError(paths, ld[t]).res = "raised"
                           THEN PhaseAfter(t, "raised") ELSE phase
          ELSE /\ models' = StoreComponent(models, d, c, Predictor(art))
               /\ fetches' = fetches + 1
               /\ ld' = [ld EXCEPT ![t] = next.pos]
               /\ result' = result
               /\ phase' = phase
    /\ UNCHANGED <<paths, outage, water_model, loaded, resp>>

\* lines 98-102: after the loops
FinishLoad(t) ==
    /\ ld[t].pc = "final"
    /\ ld' = [ld EXCEPT ![t] = Idle]
    /\ IF NothingLoaded(models)
       THEN \* raise RuntimeError
            /\ loaded' = loaded
            /\ result' = [result EXCEPT ![t] = "raised"]
            /\ phase' = PhaseAfter(t, "raised")
       ELSE /\ loaded' = FlagAfterLoad(models)
            /\ result' = [result EXCEPT ![t] = "completed"]
            /\ phase' = PhaseAfter(t, "completed")
    /\ UNCHANGED <<paths, outage, water_model, models, fetches, resp>>

-----------------------------------------------------------------------------
(* Routers: what is common *)

Max(a, b) == IF a >= b THEN a ELSE b
Min(a, b) == IF a <= b THEN a ELSE b

\* what one invocation of a predictor's predict / predict_proba does
Raises == [kind |-> "raise", v |-> 0]
Returns(v) == [kind |-> "num", v |-> v]
ReturnsNaN == [kind |-> "nan", v |-> 0]
\* the bundle holds no model
Absent == [kind |-> "absent", v |-> 0]

\* explainer.get_explanation(model_type, prediction, language): a total lookup
get_explanation(model_type, prediction) == [model_type |-> model_type, key |-> prediction]

\* PredictionResponse(success=True, ...) returned with HTTP 200.  path ("model" or
\* "fallback": what produced the value), model_out (what the artifact does when called),
\* invoked ("none", "predict", "predict_proba") and features are no part of the payload.
Success(domain, req, value, bucket, confidence, explanation, path, model_out, invoked) ==
    [ domain |-> domain, status |-> 200, success |-> TRUE, req |-> req,
      value |-> value, bucket |-> bucket, confidence |-> confidence,
      explanation |-> explanation, path |-> path,
      model_out |-> model_out, invoked |-> invoked, features |-> <<>>,
      value_nan |-> FALSE, returned |-> None, declared |-> 0,
      encoder_out |-> "absent", scaler_out |-> "absent", scaled |-> FALSE ]

\* the feature row handed to the predictor, recorded with the response
WithFeatures(r, features) == [r EXCEPT !.features = features]

\* the width the predictor declares (n_features_in_), 0 when it declares none
WithDeclared(r, width) == [r EXCEPT !.declared = width]

\* what the encoder's transform does for the request's categorical value:
\* "absent" (no encoder in the bundle), "ok", "raise" (unseen category)
WithEncoder(r, encoder_out) == [r EXCEPT !.encoder_out = encoder_out]

\* what the scaler's transform does ("absent", "ok", "raise", "mismatch" when its
\* n_features_in_ differs from the row's width) and whether the row was scaled
WithScaler(r, scaler_out, scaled) == [r EXCEPT !.scaler_out = scaler_out, !.scaled = scaled]

\* the value of the payload is NaN (value then holds 0)
WithNaN(r, is_nan) == [r EXCEPT !.value_nan = is_nan, !.value = IF is_nan THEN 0 ELSE @]

\* raise HTTPException(status, ...)
HttpError(domain, req, status, model_out, invoked) ==
    [ domain |-> domain, status |-> status, success |-> FALSE, req |-> req,
      value |-> 0, bucket |-> "none", confidence |-> 0,
      explanation |-> get_explanation("none", "none"), path |-> "none",
      model_out |-> model_out, invoked |-> invoked, features |-> <<>>,
      value_nan |-> FALSE, returned |-> None, declared |-> 0,
      encoder_out |-> "absent", scaler_out |-> "absent", scaled |-> FALSE ]

\* no request is being answered
NoResponse ==
    [ domain |-> "none", status |-> 0, success |-> FALSE, req |-> EmptyDict,
      value |-> 0, bucket |-> "none", confidence |-> 0,
      explanation |-> get_explanation("none", "none"), path |-> "none",
      model_out |-> Absent, invoked |-> "none", features |-> <<>>,
      value_nan |-> FALSE, returned |-> None, declared |-> 0,
      encoder_out |-> "absent", scaler_out |-> "absent", scaled |-> FALSE ]

\* the service accepts traffic once the lifespan hook has yielded; the handlers
\* are coroutines without an await before their return, so they run one at a time
Serving == phase = "serving" /\ ld["main"].pc = "idle"

Accepting == Serving /\ resp = NoResponse

\* the response is sent; the request's objects are dropped
Reply ==
    /\ resp # NoResponse
    /\ resp' = NoResponse
    /\ UNCHANGED <<paths, outage, water_model, models, loaded, ld, result, fetches, phase>>

-----------------------------------------------------------------------------
(* /aqi/predict : app/routers/aqi.py, AQIRequest of app/models/schemas.py *)

\* the attributes an AQIRequest object has
AQIRequestFields == {"city", "pm25", "pm10", "no2", "so2", "co", "o3", "language"}

\* the request attributes read to build the feature row (aqi.py:56-69)
AqiFeatureFields ==
    << "pm25", "pm10", "no2", "so2", "co", "o3",
       "temperature", "humidity", "wind_speed", "pressure", "visibility" >>

\* reading an attribute the request model does not declare raises AttributeError
FeatureBuildRaises(fields, declared) == \E k \in 1..Len(fields) : fields[k] \notin declared

AQI_CONFIDENCE == 85
AQI_EXCEPT_CONFIDENCE == 75

get_aqi_category(aqi_value) ==
    IF aqi_value <= 500 THEN "good"
    ELSE IF aqi_value <= 1000 THEN "moderate"
    ELSE IF aqi_value <= 1500 THEN "unhealthy_sensitive"
    ELSE IF aqi_value <= 2000 THEN "unhealthy"
    ELSE IF aqi_value <= 3000 THEN "very_unhealthy"
    ELSE "hazardous"

\* aqi.py:91-96
AqiExplainCategory(category) ==
    IF category = "good" THEN "good"
    ELSE IF category \in {"moderate", "unhealthy_sensitive"} THEN "moderate"
    ELSE "poor"

\* breakpoint tables (C_lo, C_hi, I_lo, I_hi), concentrations in tenths
PM25_BREAKPOINTS ==
    << <<0, 120, 0, 50>>, <<121, 354, 51, 100>>, <<355, 554, 101, 150>>,
       <<555, 1504, 151, 200>>, <<1505, 2504, 201, 300>>, <<2505, 3504, 301, 400>>,
       <<3505, 5004, 401, 500>> >>

PM10_BREAKPOINTS ==
    << <<0, 540, 0, 50>>, <<550, 1540, 51, 100>>, <<1550, 2540, 101, 150>>,
       <<2550, 3540, 151, 200>>, <<3550, 4240, 201, 300>>, <<4250, 5040, 301, 400>>,
       <<5050, 6040, 401, 500>> >>

NO2_BREAKPOINTS ==
    << <<0, 530, 0, 50>>, <<540, 1000, 51, 100>>, <<1010, 3600, 101, 150>>,
       <<3610, 6490, 151, 200>>, <<6500, 12490, 201, 300>>, <<12500, 16490, 301, 400>>,
       <<16500, 20490, 401, 500>> >>

\* calculate_component: linear interpolation inside the first matching bracket, else 0
RECURSIVE calculate_component(_, _, _)
calculate_component(concentration, breakpoints, k) ==
    IF k > Len(breakpoints) THEN 0
    ELSE LET bp == breakpoints[k] IN
         IF bp[1] <= concentration /\ concentration <= bp[2]
         THEN ((bp[4] - bp[3]) * (concentration - bp[1]) * 10) \div (bp[2] - bp[1]) + bp[3] * 10
         ELSE calculate_component(concentration, breakpoints, k + 1)

calculate_aqi_fallback(req) ==
    LET pm25_aqi == calculate_component(req.pm25, PM25_BREAKPOINTS, 1)
        pm10_aqi == calculate_component(req.pm10, PM10_BREAKPOINTS, 1)
        no2_aqi == calculate_component(req.no2, NO2_BREAKPOINTS, 1)
        aqi_value == Max(Max(pm25_aqi, pm10_aqi), Max(no2_aqi, 500))
    IN Min(5000, Max(0, aqi_value))

\* an except branch that reports the confidence of the try block
AqiExceptResponseTryConfidence(req, out, invoked) ==
    LET aqi_value == calculate_aqi_fallback(req) IN
    Success("aqi", req, aqi_value, get_aqi_category(aqi_value), AQI_CONFIDENCE,
            get_explanation("aqi", "moderate"), "fallback", out, invoked)

\* the except branch of predict_aqi (aqi.py:121-147)
AqiExceptResponse(req, out, invoked) ==
    LET aqi_value == calculate_aqi_fallback(req) IN
    Success("aqi", req, aqi_value, get_aqi_category(aqi_value), AQI_EXCEPT_CONFIDENCE,
            get_explanation("aqi", "moderate"), "fallback", out, invoked)

\* the common tail of the try block (aqi.py:87-119)
AqiResponse(req, aqi_value, path, out, invoked) ==
    LET category == get_aqi_category(aqi_value) IN
    Success("aqi", req, aqi_value, category, AQI_CONFIDENCE,
            get_explanation("aqi", AqiExplainCategory(category)), path, out, invoked)

\* the classes_ of the city encoder stored under "encoder"
AqiCityClasses == <<"Ahmedabad", "Delhi">>

\* predict_aqi.  out: what model.predict does when called.  The city encoder
\* (aqi.py:76-83) raises for a city that is not among its classes
predict_aqi(req, model_data, out) ==
    LET use_model == Truthy(model_data) /\ Has(model_data, "model")
        encoder_out == IF use_model /\ Has(model_data, "encoder")
                       THEN IF \E k \in 1..Len(AqiCityClasses) : AqiCityClasses[k] = req.city
                            THEN "ok" ELSE "raise"
                       ELSE "absent"
        r == IF ~use_model
             THEN AqiResponse(req, calculate_aqi_fallback(req), "fallback", Absent, "none")
             ELSE IF FeatureBuildRaises(AqiFeatureFields, AQIRequestFields)
             THEN AqiExceptResponse(req, out, "none")
             ELSE IF out.kind = "raise"
             THEN AqiExceptResponse(req, out, "predict")
             ELSE AqiResponse(req, out.v, "model", out, "predict")
    IN WithEncoder(r, encoder_out)

\* pollutant concentrations of the requests, in tenths
AqiRequests ==
    [city : {"Delhi", "Atlantis"}, pm25 : {0, 60, 354, 1504, 6000}, pm10 : {0, 4240},
     no2 : {0, 530}]

\* what the AQI artifact's predict may do: raise, or return an AQI value (tenths)
AqiModelOutcomes == {Raises, Returns(420), Returns(1800)}

PredictAqi ==
    /\ Accepting
    /\ \E req \in AqiRequests, out \in AqiModelOutcomes :
          resp' = predict_aqi(req, get_all(models, "aqi"), out)
    /\ UNCHANGED <<paths, outage, water_model, models, loaded, ld, result, fetches, phase>>


-----------------------------------------------------------------------------
(* /flood/predict : app/routers/flood.py *)

FLOOD_CONFIDENCE == 82
FLOOD_EXCEPT_CONFIDENCE == 50

\* calculate_flood_risk_fallback, in hundredths
calculate_flood_risk_fallback(req) ==
    LET rain == IF req.rainfall_mm > 300 THEN 40
                ELSE IF req.rainfall_mm > 200 THEN 30
                ELSE IF req.rainfall_mm > 100 THEN 20
                ELSE 10
        river == IF req.river_level > 10 THEN 30
                 ELSE IF req.river_level > 5 THEN 20
                 ELSE 10
        elev == IF req.elevation < 50 THEN 15
                ELSE IF req.elevation < 100 THEN 10
                ELSE 5
        hist == Min(15, req.flood_history * 3)
    IN Min(100, rain + river + elev + hist)

\* flood.py:80-88, probability in hundredths
\* a classification whose middle bucket is cut off above 0.6
FloodRiskLevelGap(flood_probability) ==
    IF flood_probability >= 70 THEN "high"
    ELSE IF flood_probability >= 40 /\ flood_probability < 60 THEN "moderate"
    ELSE "low"

FloodRiskLevel(flood_probability) ==
    IF flood_probability >= 70 THEN "high"
    ELSE IF flood_probability >= 40 THEN "moderate"
    ELSE "low"

\* flood.py:50-58.  expected = 0 stands for a predictor without n_features_in_
FloodFeatures(base_features, expected_features) ==
    IF expected_features # 0
    THEN IF expected_features > Len(base_features)
         THEN base_features \o [k \in 1..(expected_features - Len(base_features)) |-> 0]
         ELSE SubSeq(base_features, 1, expected_features)
    ELSE base_features

\* the probability taken as the model gives it, without the clamp
Clamp01Missing(p) == IF p.kind = "nan" THEN 100 ELSE p.v

\* max(0.0, min(1.0, p)); with p = NaN, min(1.0, NaN) is 1.0 in Python
Clamp01(p) == IF p.kind = "nan" THEN 100 ELSE Max(0, Min(100, p.v))

\* explainer.get_explanation raises for (model_type, prediction): never, it is a total lookup
ExplainerRaises(model_type, prediction) == FALSE

\* the outer except branch (flood.py:108-128)
FloodExceptResponse(req, m) ==
    Success("flood", req, 300, "low", FLOOD_EXCEPT_CONFIDENCE,
            get_explanation("flood", "low"), "fallback", m.out, "none")

\* predict_flood_risk.  m: the loaded model's n_features_in_, whether it has
\* predict_proba, and what the call does.  The value of the response is
\* round(flood_probability * 100, 1), a percentage in tenths
predict_flood_risk(req, model_data, m) ==
    LET fallback == Returns(calculate_flood_risk_fallback(req))
        use_model == Truthy(model_data) /\ Has(model_data, "model")
        features == FloodFeatures(<<req.rainfall_mm, req.river_level, req.elevation,
                                    req.flood_history>>, m.n_features)
        method == IF m.has_proba THEN "predict_proba" ELSE "predict"
        accepted == use_model /\ m.out.kind # "raise"
        raw == IF accepted THEN m.out ELSE fallback
        flood_probability == Clamp01(raw)
        risk_level == FloodRiskLevel(flood_probability)
    IN IF ExplainerRaises("flood", risk_level)
       THEN FloodExceptResponse(req, m)
       ELSE WithDeclared(
              WithFeatures(
                Success("flood", req, flood_probability * 10, risk_level, FLOOD_CONFIDENCE,
                        get_explanation("flood", risk_level),
                        IF accepted THEN "model" ELSE "fallback",
                        IF use_model THEN m.out ELSE Absent,
                        IF use_model THEN method ELSE "none"),
                IF use_model THEN features ELSE <<>>),
              IF use_model THEN m.n_features ELSE 0)

FloodRequests ==
    [rainfall_mm : {50, 250}, river_level : {3, 8}, elevation : {40, 150}, flood_history : {0, 3}]

\* the flood artifact: declared width (0: none), predict_proba or not, and the
\* positive-class probability (hundredths) the call yields
FloodModels ==
    [ n_features : {0, 3, 6}, has_proba : BOOLEAN,
      out : {Raises, Returns(20), Returns(82), Returns(150), ReturnsNaN} ]

PredictFlood ==
    /\ Accepting
    /\ \E req \in FloodRequests, m \in FloodModels :
          resp' = predict_flood_risk(req, get_all(models, "flood"), m)
    /\ UNCHANGED <<paths, outage, water_model, models, loaded, ld, result, fetches, phase>>


-----------------------------------------------------------------------------
(* /price/predict : app/routers/price.py *)

PRICE_CONFIDENCE == 78
PRICE_EXCEPT_CONFIDENCE == 65

\* a dict lookup with a default: d.get(key, default)
GetOr(d, key, default) == IF key \in DOMAIN d THEN d[key] ELSE default

\* rupees per quintal
PRICE_BASE_PRICES ==
    [ rice |-> 2000, wheat |-> 2200, maize |-> 1800, cotton |-> 6000, sugarcane |-> 350,
      soybean |-> 4200, groundnut |-> 5600, potato |-> 1500, onion |-> 2100, tomato |-> 2600 ]

\* multipliers in hundredths
CROP_MULTIPLIER ==
    [ rice |-> 100, wheat |-> 108, maize |-> 90, cotton |-> 170, soybean |-> 130,
      groundnut |-> 150, potato |-> 85, onion |-> 95, tomato |-> 110, sugarcane |-> 20 ]

\* estimate_price_fallback, in hundredths of a rupee
estimate_price_fallback(req) ==
    LET base == GetOr(PRICE_BASE_PRICES, req.crop, 2500) * 100
        seasonal == IF req.month \in {3, 4, 5} THEN (base * 90) \div 100
                    ELSE IF req.month \in {8, 9, 10} THEN (base * 110) \div 100
                    ELSE base
    IN (seasonal * (1000 + (req.year - 2020) * 15)) \div 1000

\* encoders[key].transform([value])[0] inside try/except: the position of the value
\* among the encoder's classes, and 0 when the key is missing or transform raises
SafeEncode(encoders, key, value) ==
    IF key \in DOMAIN encoders /\ \E k \in 1..Len(encoders[key]) : encoders[key][k] = value
    THEN (CHOOSE k \in 1..Len(encoders[key]) : encoders[key][k] = value) - 1
    ELSE 0

\* the except branch of predict_price (price.py:122-145): no crop multiplier
PriceExceptResponse(req, m) ==
    Success("price", req, estimate_price_fallback(req), "none", PRICE_EXCEPT_CONFIDENCE,
            get_explanation("price", "default"), "fallback", m.out, "predict")

\* predict_price.  m.encoders: the dict stored under "encoders" (key -> classes_),
\* m.out: what model.predict does
predict_price(req, model_data, m) ==
    LET use_model == Truthy(model_data) /\ Has(model_data, "model")
        encoders == IF Has(model_data, "encoders") THEN m.encoders ELSE EmptyDict
        features == << SafeEncode(encoders, "crop", req.crop),
                       SafeEncode(encoders, "state", req.state),
                       req.month, req.year, 0, 0 >>
        \* predicted_price is None or predicted_price <= 0
        rejected == ~use_model \/ (m.out.kind = "num" /\ m.out.v <= 0)
        predicted_price == IF rejected THEN estimate_price_fallback(req) ELSE m.out.v
        multiplier == GetOr(CROP_MULTIPLIER, req.crop, 100)
        \* what encoders["crop"].transform does for request.crop
        encoder_out == IF use_model /\ "crop" \in DOMAIN encoders
                       THEN IF \E k \in 1..Len(encoders["crop"]) : encoders["crop"][k] = req.crop
                            THEN "ok" ELSE "raise"
                       ELSE "absent"
        r == IF use_model /\ m.out.kind = "raise"
             THEN WithFeatures(PriceExceptResponse(req, m), features)
             ELSE WithNaN(
                    WithFeatures(
                      Success("price", req, (predicted_price * multiplier) \div 100, "none",
                              PRICE_CONFIDENCE, get_explanation("price", "default"),
                              IF rejected THEN "fallback" ELSE "model",
                              IF use_model THEN m.out ELSE Absent,
                              IF use_model THEN "predict" ELSE "none"),
                      IF use_model THEN features ELSE <<>>),
                    use_model /\ m.out.kind = "nan")
    IN WithEncoder(r, encoder_out)

\* crop names are sent in lower case, as the frontend does
PriceRequests == [crop : {"rice", "cotton", "saffron"}, state : {"Gujarat"},
                  month : {4, 9, 12}, year : {2024}]

PriceModels ==
    [ encoders : { EmptyDict,
                   [crop |-> <<"cotton", "rice">>],
                   [crop |-> <<"cotton", "rice">>, state |-> <<"Bihar", "Gujarat">>] },
      out : {Raises, Returns(-500), Returns(0), Returns(310000), ReturnsNaN} ]

PredictPrice ==
    /\ Accepting
    /\ \E req \in PriceRequests, m \in PriceModels :
          resp' = predict_price(req, get_all(models, "price"), m)
    /\ UNCHANGED <<paths, outage, water_model, models, loaded, ld, result, fetches, phase>>

-----------------------------------------------------------------------------
(* /yield/predict : app/routers/yield_pred.py *)

YIELD_CONFIDENCE == 79

\* str.lower() on the crop names the requests use
Lower(name) ==
    CASE name = "Rice" -> "rice"
      [] name = "Cotton" -> "cotton"
      [] name = "Saffron" -> "saffron"
      [] OTHER -> name

\* kg per hectare
AVG_YIELDS ==
    [ rice |-> 2500, wheat |-> 3000, maize |-> 2800, cotton |-> 400, sugarcane |-> 70000,
      groundnut |-> 1500, soybean |-> 1000, potato |-> 20000, onion |-> 15000,
      tomato |-> 20000 ]

estimate_yield_fallback(req) == GetOr(AVG_YIELDS, Lower(req.crop), 2000)

\* yield_pred.py:80-88
YieldCategory(yield_prediction) ==
    IF yield_prediction > 3000 THEN "high"
    ELSE IF yield_prediction > 1500 THEN "moderate"
    ELSE "low"

\* predict_yield.  max(500, NaN) is 500 in Python
predict_yield(req, model_data, m) ==
    LET use_model == Truthy(model_data) /\ Has(model_data, "model")
        accepted == use_model /\ m.out.kind # "raise"
        raw == IF accepted THEN m.out ELSE Returns(estimate_yield_fallback(req))
        yield_prediction == IF raw.kind = "nan" THEN 500 ELSE Max(500, raw.v)
    IN WithFeatures(
         Success("yield", req, yield_prediction, YieldCategory(yield_prediction),
                 YIELD_CONFIDENCE, get_explanation("yield", "default"),
                 IF accepted THEN "model" ELSE "fallback",
                 IF use_model THEN m.out ELSE Absent,
                 IF use_model THEN "predict" ELSE "none"),
         IF use_model THEN <<req.area_hectares>> ELSE <<>>)

YieldRequests == [crop : {"Rice", "Cotton", "Saffron"}, area_hectares : {1, 5}]

YieldModels == [out : {Raises, Returns(100), Returns(2000), Returns(3500), ReturnsNaN}]

PredictYield ==
    /\ Accepting
    /\ \E req \in YieldRequests, m \in YieldModels :
          resp' = predict_yield(req, get_all(models, "yield"), m)
    /\ UNCHANGED <<paths, outage, water_model, models, loaded, ld, result, fetches, phase>>

-----------------------------------------------------------------------------
(* /water/calculate : app/routers/water.py, app/services/water_model.py *)

WATER_CONFIDENCE == 95

OneHot(value, name) == IF value = name THEN 1 ELSE 0

\* prepare_features (water_model.py:28-58); the requests use lower-case names
prepare_features(req) ==
    << req.temperature, req.humidity, req.area_hectares,
       OneHot(req.crop, "rice"), OneHot(req.crop, "wheat"), OneHot(req.crop, "maize"),
       OneHot(req.soil_type, "loamy"), OneHot(req.soil_type, "sandy"),
       OneHot(req.soil_type, "clay"),
       OneHot(req.growth_stage, "seedling"), OneHot(req.growth_stage, "vegetative"),
       OneHot(req.growth_stage, "flowering"), OneHot(req.growth_stage, "maturity") >>

\* calculate_water_requirement.  present: the module global `model` is set;
\* out: what model.predict does (daily requirement in hundredths of a mm)
calculate_water_requirement(req, present, out) ==
    IF ~present
    THEN \* predict_water_requirement returns {"error": ...}: HTTPException(503), re-raised
         HttpError("water", req, 503, Absent, "none")
    ELSE IF out.kind = "raise"
    THEN \* except Exception: HTTPException(500)
         WithFeatures(HttpError("water", req, 500, out, "predict"), prepare_features(req))
    ELSE IF out.kind = "num" /\ out.v <= 0
    THEN \* raise ValueError("Invalid ML prediction") -> HTTPException(500)
         WithFeatures(HttpError("water", req, 500, out, "predict"), prepare_features(req))
    ELSE WithNaN(
           WithFeatures(
             Success("water", req, out.v, "none", WATER_CONFIDENCE,
                     get_explanation("water", "ml"), "model", out, "predict"),
             prepare_features(req)),
           out.kind = "nan")

WaterRequests ==
    [ crop : {"rice", "tomato"}, growth_stage : {"flowering"}, temperature : {30},
      humidity : {60}, soil_type : {"loamy", "black"}, area_hectares : {2} ]

WaterModelOutcomes == {Raises, Returns(0), Returns(550), ReturnsNaN}

CalculateWater ==
    /\ Accepting
    /\ \E req \in WaterRequests, out \in WaterModelOutcomes :
          resp' = calculate_water_requirement(req, water_model, out)
    /\ UNCHANGED <<paths, outage, water_model, models, loaded, ld, result, fetches, phase>>


-----------------------------------------------------------------------------
(* /crop/recommend : app/routers/crop.py *)

\* confidence = 70.0, on the percent scale this router uses (hundredths: 7000)
CROP_DEFAULT_CONFIDENCE == 7000

\* the classes_ of the crop label encoder artifact
CropLabels == <<"maize", "rice">>

\* recommend_crop.  m.out: what model.predict does (a class index); m.max_prob:
\* max(predict_proba) in hundredths, 0 for a model without predict_proba;
\* m.scaler_raises, m.encoder_raises: scaler.transform / encoder.inverse_transform raise.
\* Every exception inside the try block becomes HTTPException(500).
recommend_crop(req, model_data, m) ==
    LET features == << req.nitrogen, req.phosphorus, req.potassium, req.temperature,
                       req.humidity, req.ph, req.rainfall >>
        model == Has(model_data, "model")
        scaler == Has(model_data, "scaler")
        encoder == Has(model_data, "encoder")
        out == IF model THEN m.out ELSE Absent
        \* `if scaler: features = scaler.transform(features)` : no width test, and a
        \* scaler fitted on another width raises inside transform
        scaler_out == IF ~scaler THEN "absent" ELSE IF m.scaler_raises THEN "raise" ELSE "ok"
        r == IF ~Truthy(model_data)
             THEN Success("crop", req, 0, "Rice", CROP_DEFAULT_CONFIDENCE,
                          get_explanation("crop_recommendation", "default"), "fallback",
                          Absent, "none")
             ELSE IF scaler /\ m.scaler_raises
             THEN HttpError("crop", req, 500, out, "none")
             ELSE IF ~model
             THEN \* model is None: model.predict raises AttributeError
                  HttpError("crop", req, 500, out, "none")
             ELSE IF m.out.kind = "raise"
             THEN WithFeatures(HttpError("crop", req, 500, out, "predict"), features)
             ELSE IF ~encoder
             THEN \* encoder is None: encoder.inverse_transform raises AttributeError
                  WithFeatures(HttpError("crop", req, 500, out, "predict"), features)
             ELSE IF m.encoder_raises
             THEN WithFeatures(HttpError("crop", req, 500, out, "predict"), features)
             ELSE WithFeatures(
                    Success("crop", req, m.out.v, CropLabels[m.out.v + 1],
                            IF m.max_prob # 0 THEN m.max_prob * 100
                            ELSE CROP_DEFAULT_CONFIDENCE,
                            get_explanation("crop_recommendation", "default"), "model",
                            out, IF m.max_prob # 0 THEN "predict_proba" ELSE "predict"),
                    features)
    IN WithScaler(r, scaler_out, scaler_out = "ok")

CropRequests ==
    [ nitrogen : {20, 90}, phosphorus : {42}, potassium : {43}, temperature : {25},
      humidity : {80}, ph : {6}, rainfall : {200} ]

CropModels ==
    [ out : {Raises, Returns(0), Returns(1)}, max_prob : {0, 45, 93},
      scaler_raises : BOOLEAN, encoder_raises : BOOLEAN ]

RecommendCrop ==
    /\ Accepting
    /\ \E req \in CropRequests, m \in CropModels :
          resp' = recommend_crop(req, get_all(models, "crop"), m)
    /\ UNCHANGED <<paths, outage, water_model, models, loaded, ld, result, fetches, phase>>

-----------------------------------------------------------------------------
(* /ndvi/analyze : app/routers/ndvi.py *)

NDVI_CONFIDENCE == 90

\* (nir - red) / (nir + red), in thousandths; 0.0 when the bands sum to zero
NdviValue(req) ==
    IF req.nir_band + req.red_band = 0 THEN 0
    ELSE ((req.nir_band - req.red_band) * 1000) \div (req.nir_band + req.red_band)

\* calculate_health_score_fallback, in hundredths of a point
calculate_health_score_fallback(ndvi, req) ==
    LET base_score == ((ndvi + 1000) * 10) \div 2
        by_temp == IF 20 <= req.temperature /\ req.temperature <= 30
                   THEN (base_score * 110) \div 100
                   ELSE IF req.temperature < 10 \/ req.temperature > 40
                   THEN (base_score * 80) \div 100
                   ELSE base_score
        by_rain == IF 50 <= req.rainfall /\ req.rainfall <= 200
                   THEN (by_temp * 105) \div 100
                   ELSE IF req.rainfall < 20
                   THEN (by_temp * 85) \div 100
                   ELSE by_temp
    IN Min(10000, Max(0, by_rain))

\* ndvi.py:55-76, ndvi in thousandths
VegetationStatus(ndvi) ==
    IF ndvi >= 600 THEN "high"
    ELSE IF ndvi >= 300 THEN "moderate"
    ELSE IF ndvi >= 100 THEN "low"
    ELSE "very_low"

\* analyze_ndvi
analyze_ndvi(req, model_data, m) ==
    LET ndvi == NdviValue(req)
        use_model == Truthy(model_data) /\ Has(model_data, "model")
        accepted == use_model /\ m.out.kind # "raise"
        health_score == IF accepted THEN m.out.v ELSE calculate_health_score_fallback(ndvi, req)
        status == VegetationStatus(ndvi)
    IN WithNaN(
         WithFeatures(
           Success("ndvi", req, health_score, status, NDVI_CONFIDENCE,
                   get_explanation("ndvi", status),
                   IF accepted THEN "model" ELSE "fallback",
                   IF use_model THEN m.out ELSE Absent,
                   IF use_model THEN "predict" ELSE "none"),
           IF use_model THEN <<ndvi, req.temperature, req.rainfall>> ELSE <<>>),
         accepted /\ m.out.kind = "nan")

\* bands in hundredths
NdviRequests ==
    [ red_band : {0, 20, 80}, nir_band : {0, 20, 80}, temperature : {5, 25},
      rainfall : {10, 100} ]

NdviModels == [out : {Raises, Returns(7500), ReturnsNaN}]

AnalyzeNdvi ==
    /\ Accepting
    /\ \E req \in NdviRequests, m \in NdviModels :
          resp' = analyze_ndvi(req, get_all(models, "ndvi"), m)
    /\ UNCHANGED <<paths, outage, water_model, models, loaded, ld, result, fetches, phase>>


-----------------------------------------------------------------------------
(* /storm/predict : app/routers/storm.py *)
\* storm probability in thousandths; the value of the response is
\* round(storm_probability * 100, 1), a percentage in tenths (the same number)

STORM_CONFIDENCE == 76
STORM_EXCEPT_CONFIDENCE == 50

\* estimate_storm_risk_fallback (storm.py:124-150)
estimate_storm_risk_fallback(req) ==
    LET wind == IF req.wind_speed > 100 THEN 400
                ELSE IF req.wind_speed > 60 THEN 250
                ELSE IF req.wind_speed > 40 THEN 150 ELSE 0
        pressure == IF req.pressure < 990 THEN 350
                    ELSE IF req.pressure < 1000 THEN 200
                    ELSE IF req.pressure < 1010 THEN 100 ELSE 0
        humidity == IF req.humidity > 85 THEN 150
                    ELSE IF req.humidity > 70 THEN 100 ELSE 0
        risk == wind + pressure + humidity
        seasonal == IF req.month \in {4, 5, 10, 11} THEN (risk * 13) \div 10 ELSE risk
    IN Min(1000, seasonal)

\* storm.py:68-76
StormRiskLevel(storm_probability) ==
    IF storm_probability >= 700 THEN "high"
    ELSE IF storm_probability >= 400 THEN "moderate"
    ELSE "low"

\* storm.py:42-49.  expected = 0 stands for a predictor without n_features_in_:
\* getattr then gives len(base_features)
StormFeatures(base_features, expected_features) ==
    LET expected == IF expected_features = 0 THEN Len(base_features) ELSE expected_features
    IN IF expected > Len(base_features)
       THEN base_features \o [k \in 1..(expected - Len(base_features)) |-> 0]
       ELSE SubSeq(base_features, 1, expected)

\* max(0.0, min(1.0, p)) on thousandths; min(1.0, NaN) is 1.0 in Python
Clamp01Thousandths(p) == IF p.kind = "nan" THEN 1000 ELSE Max(0, Min(1000, p.v))

\* the except branch of predict_storm (storm.py:98-118)
StormExceptResponse(req, m) ==
    Success("storm", req, 200, "low", STORM_EXCEPT_CONFIDENCE,
            get_explanation("storm", "low"), "fallback", m.out, "none")

\* predict_storm.  m: the loaded model's n_features_in_, whether it has
\* predict_proba, and what the call does
predict_storm(req, model_data, m) ==
    LET fallback == Returns(estimate_storm_risk_fallback(req))
        use_model == Truthy(model_data) /\ Has(model_data, "model")
        features == StormFeatures(<<req.month, req.wind_speed, req.pressure, req.humidity>>,
                                  m.n_features)
        method == IF m.has_proba THEN "predict_proba" ELSE "predict"
        accepted == use_model /\ m.out.kind # "raise"
        raw == IF accepted THEN m.out ELSE fallback
        storm_probability == Clamp01Thousandths(raw)
        risk_level == StormRiskLevel(storm_probability)
    IN IF ExplainerRaises("storm", risk_level)
       THEN StormExceptResponse(req, m)
       ELSE WithDeclared(
              WithFeatures(
                Success("storm", req, storm_probability, risk_level, STORM_CONFIDENCE,
                        get_explanation("storm", risk_level),
                        IF accepted THEN "model" ELSE "fallback",
                        IF use_model THEN m.out ELSE Absent,
                        IF use_model THEN method ELSE "none"),
                IF use_model THEN features ELSE <<>>),
              IF use_model THEN m.n_features ELSE 0)

StormRequests ==
    [ month : {4, 7}, wind_speed : {30, 110}, pressure : {985, 1015}, humidity : {90} ]

StormModels ==
    [ n_features : {0, 3, 6}, has_proba : BOOLEAN,
      out : {Raises, Returns(150), Returns(820), ReturnsNaN} ]

PredictStorm ==
    /\ Accepting
    /\ \E req \in StormRequests, m \in StormModels :
          resp' = predict_storm(req, get_all(models, "storm"), m)
    /\ UNCHANGED <<paths, outage, water_model, models, loaded, ld, result, fetches, phase>>

-----------------------------------------------------------------------------
(* /co2/predict : app/routers/co2.py *)
\* CO2 levels in hundredths of a ppm

CO2_CONFIDENCE == 88
CO2_EXCEPT_CONFIDENCE == 75

\* the model returns +/- infinity
ReturnsInf == [kind |-> "inf", v |-> 0]

\* 4 * sin((month - 4) * pi / 6) in hundredths, for the months of the requests
Co2Seasonal(month) ==
    CASE month = 1 -> -400
      [] month = 4 -> 0
      [] month = 7 -> 400
      [] month = 10 -> 0

\* calculate_co2_fallback (co2.py:119-130)
calculate_co2_fallback(req) ==
    LET base_co2 == 31500 + (req.year - 1958) * 160
        temp_effect == (req.temperature - 15) * 15
        co2 == base_co2 + Co2Seasonal(req.month) + temp_effect
    IN Max(28000, Min(co2, 50000))

\* co2.py:57-68
Co2Level(co2_level) ==
    IF co2_level < 35000 THEN "normal"
    ELSE IF co2_level < 40000 THEN "elevated"
    ELSE IF co2_level < 45000 THEN "high"
    ELSE "very_high"

\* the except branch of predict_co2 (co2.py:92-117): the level is always "normal"
Co2ExceptResponse(req, out, invoked) ==
    Success("co2", req, calculate_co2_fallback(req), "normal", CO2_EXCEPT_CONFIDENCE,
            get_explanation("co2", "normal"), "fallback", out, invoked)

\* the return of the try block (co2.py:56-90)
Co2Response(req, co2_level, path, out, invoked) ==
    Success("co2", req, co2_level, Co2Level(co2_level), CO2_CONFIDENCE,
            get_explanation("co2", Co2Level(co2_level)), path, out, invoked)

\* predict_co2.  m.out: what model.predict does; m.scaler_width: the scaler's
\* n_features_in_ (0: it has none); m.scaler_raises: scaler.transform raises
predict_co2(req, model_data, m) ==
    LET use_model == Truthy(model_data) /\ Has(model_data, "model")
        features == << req.month, req.year, req.temperature, req.humidity, req.pressure,
                       req.wind_speed, 0 >>
        has_scaler == use_model /\ Has(model_data, "scaler")
        \* co2.py:42
        apply_scaler == has_scaler /\ m.scaler_width = Len(features)
        scaler_out == IF ~has_scaler THEN "absent"
                      ELSE IF ~apply_scaler THEN "mismatch"
                      ELSE IF m.scaler_raises THEN "raise" ELSE "ok"
        r == IF ~use_model
             THEN Co2Response(req, calculate_co2_fallback(req), "fallback", Absent, "none")
             ELSE IF apply_scaler /\ m.scaler_raises
             THEN Co2ExceptResponse(req, m.out, "none")
             ELSE IF m.out.kind = "raise"
             THEN WithFeatures(Co2ExceptResponse(req, m.out, "predict"), features)
             ELSE IF m.out.kind \in {"nan", "inf"}
             THEN \* co2.py:48-49: raise ValueError("Invalid CO2 model output")
                  WithFeatures(Co2ExceptResponse(req, m.out, "predict"), features)
             ELSE WithFeatures(Co2Response(req, m.out.v, "model", m.out, "predict"),
                               features)
    IN WithScaler(r, scaler_out, scaler_out = "ok")

Co2Requests ==
    [ year : {1970, 2024}, month : {1, 7}, temperature : {15, 25}, humidity : {60},
      pressure : {1010}, wind_speed : {12} ]

Co2Models ==
    [ out : {Raises, Returns(38000), Returns(47000), ReturnsNaN, ReturnsInf},
      scaler_width : {0, 5, 7}, scaler_raises : BOOLEAN ]

PredictCo2 ==
    /\ Accepting
    /\ \E req \in Co2Requests, m \in Co2Models :
          resp' = predict_co2(req, get_all(models, "co2"), m)
    /\ UNCHANGED <<paths, outage, water_model, models, loaded, ld, result, fetches, phase>>

-----------------------------------------------------------------------------
(* /rainfall/predict : app/routers/rainfall.py, RainfallRequest of schemas.py *)
\* rainfall in hundredths of a millimetre

RAINFALL_CONFIDENCE == 80
RAINFALL_EXCEPT_CONFIDENCE == 70

\* the width of the feature row predict_rainfall builds (rainfall.py:27-46)
RAINFALL_WIDTH == 18

\* the attributes a RainfallRequest object has
RainfallRequestFields == {"subdivision", "month", "year", "language"}

\* the request attributes read to build the feature row (rainfall.py:28-32)
RainfallFeatureFields == <<"month", "year", "temperature", "humidity", "pressure">>

\* the request attributes read to build the response of the try block (rainfall.py:113-120)
RainfallResponseFields ==
    <<"subdivision", "month", "year", "temperature", "humidity", "pressure">>

\* monsoon_factor in tenths
monsoon_factor ==
    [m \in 1..12 |-> <<2, 2, 3, 4, 5, 15, 20, 18, 15, 8, 4, 3>>[m]]

\* calculate_rainfall_fallback (rainfall.py:171-184); getattr(request,
\* "temperature", 25) finds no attribute, so temp_effect is (25 - 20) * 2
calculate_rainfall_fallback(req) ==
    LET temperature == IF "temperature" \in RainfallRequestFields THEN req.temperature ELSE 25
        temp_effect == Max(0, (temperature - 20) * 2)
    IN 100 * monsoon_factor[req.month] * 10 + temp_effect * 100

\* rainfall.py:71-85
RainfallCategory(rainfall_prediction) ==
    IF rainfall_prediction < 5000 THEN "scanty"
    ELSE IF rainfall_prediction < 10000 THEN "light"
    ELSE IF rainfall_prediction < 20000 THEN "moderate"
    ELSE IF rainfall_prediction < 40000 THEN "heavy"
    ELSE "very_heavy"

\* the classes_ of the subdivision encoder stored under "encoder"
RainfallSubdivisions == <<"KERALA", "PUNJAB">>

\* the except branch of predict_rainfall (rainfall.py:128-168): category "moderate"
RainfallExceptResponse(req, out, invoked) ==
    Success("rainfall", req, calculate_rainfall_fallback(req), "moderate",
            RAINFALL_EXCEPT_CONFIDENCE, get_explanation("rainfall", "default"),
            "fallback", out, invoked)

\* the return of the try block (rainfall.py:70-126); building it reads
\* request.temperature, request.humidity and request.pressure
RainfallResponse(req, rainfall_prediction, path, out, invoked) ==
    IF FeatureBuildRaises(RainfallResponseFields, RainfallRequestFields)
    THEN RainfallExceptResponse(req, out, invoked)
    ELSE Success("rainfall", req, rainfall_prediction, RainfallCategory(rainfall_prediction),
                 RAINFALL_CONFIDENCE, get_explanation("rainfall", "default"),
                 path, out, invoked)

\* predict_rainfall.  m.n_features: the model's n_features_in_ (0: it has none,
\* getattr then gives 18); m.out: what model.predict does
predict_rainfall(req, model_data, m) ==
    LET use_model == Truthy(model_data) /\ Has(model_data, "model")
        expected == IF m.n_features = 0 THEN RAINFALL_WIDTH ELSE m.n_features
        known == \E k \in 1..Len(RainfallSubdivisions) : RainfallSubdivisions[k] = req.subdivision
        encoder_out == IF use_model /\ Has(model_data, "encoder")
                       THEN IF known THEN "ok" ELSE "raise"
                       ELSE "absent"
        subdivision_encoded ==
            IF encoder_out = "ok"
            THEN (CHOOSE k \in 1..Len(RainfallSubdivisions) :
                      RainfallSubdivisions[k] = req.subdivision) - 1
            ELSE 0
        features == [k \in 1..RAINFALL_WIDTH |->
                        IF k = 1 THEN req.month
                        ELSE IF k = 2 THEN req.year
                        ELSE IF k = 3 THEN req.temperature
                        ELSE IF k = 4 THEN req.humidity
                        ELSE IF k = 5 THEN req.pressure
                        ELSE IF k = 17 THEN subdivision_encoded
                        ELSE 0]
        r == IF ~use_model
             THEN RainfallResponse(req, calculate_rainfall_fallback(req), "fallback",
                                   Absent, "none")
             ELSE IF FeatureBuildRaises(RainfallFeatureFields, RainfallRequestFields)
             THEN RainfallExceptResponse(req, m.out, "none")
             ELSE IF RAINFALL_WIDTH # expected
             THEN \* rainfall.py:50-54: raise ValueError("Feature count mismatch")
                  RainfallExceptResponse(req, m.out, "none")
             ELSE IF m.out.kind = "raise"
             THEN WithFeatures(RainfallExceptResponse(req, m.out, "predict"), features)
             ELSE WithNaN(
                    WithFeatures(RainfallResponse(req, m.out.v, "model", m.out, "predict"),
                                 features),
                    m.out.kind = "nan")
    IN WithDeclared(WithEncoder(r, encoder_out), IF use_model THEN m.n_features ELSE 0)

RainfallRequests == [subdivision : {"KERALA", "ATLANTIS"}, month : {1, 7}, year : {2024}]

RainfallModels == [n_features : {0, 12, 18, 20}, out : {Raises, Returns(12000), ReturnsNaN}]

PredictRainfall ==
    /\ Accepting
    /\ \E req \in RainfallRequests, m \in RainfallModels :
          resp' = predict_rainfall(req, get_all(models, "rainfall"), m)
    /\ UNCHANGED <<paths, outage, water_model, models, loaded, ld, result, fetches, phase>>

-----------------------------------------------------------------------------
(* /profit/calculate : app/routers/profit.py *)
\* amounts in hundredths of a rupee; the requests give whole rupees

PROFIT_CONFIDENCE == 75
PROFIT_EXCEPT_CONFIDENCE == 65

\* profit.py:27-34
BasicProfit(req) ==
    LET area == Max(req.area_hectares, 0)
        total_cost == Max(req.cost_per_hectare, 0) * area
        total_revenue == Max(req.expected_yield, 0) * Max(req.market_price, 0) * area
    IN [total_cost |-> total_cost * 100, basic_profit |-> (total_revenue - total_cost) * 100]

\* profit.py:73-97: roi = predicted_profit / total_cost * 100 if total_cost > 0 else 0.0;
\* every comparison with a NaN roi is false
Profitability(predicted_profit, total_cost, is_nan) ==
    IF total_cost > 0 /\ is_nan THEN "loss"
    ELSE IF total_cost > 0 /\ predicted_profit * 100 > 50 * total_cost THEN "high"
    ELSE IF total_cost > 0 /\ predicted_profit * 100 > 20 * total_cost THEN "moderate"
    ELSE IF total_cost > 0 /\ predicted_profit * 100 > 0 THEN "low"
    ELSE "loss"

\* the outer except branch of calculate_profit (profit.py:125-147)
ProfitExceptResponse(req, m) ==
    Success("profit", req, BasicProfit(req).basic_profit, "moderate",
            PROFIT_EXCEPT_CONFIDENCE, get_explanation("profit", "default"),
            "fallback", m.out, "none")

\* calculate_profit.  m.encoders: the dict stored under "encoders" (key -> classes_),
\* m.out: what model.predict does
calculate_profit(req, model_data, m) ==
    LET basic == BasicProfit(req)
        use_model == Truthy(model_data) /\ Has(model_data, "model")
        encoders == IF Has(model_data, "encoders") THEN m.encoders ELSE EmptyDict
        crop_encoded == SafeEncode(encoders, "crop", req.crop)
        encoder_out == IF use_model /\ "crop" \in DOMAIN encoders
                       THEN IF \E k \in 1..Len(encoders["crop"]) : encoders["crop"][k] = req.crop
                            THEN "ok" ELSE "raise"
                       ELSE "absent"
        features == << crop_encoded, Max(req.area_hectares, 0), Max(req.cost_per_hectare, 0),
                       Max(req.expected_yield, 0), Max(req.market_price, 0), 0 >>
        accepted == use_model /\ m.out.kind # "raise"
        is_nan == accepted /\ m.out.kind = "nan"
        predicted_profit == IF accepted THEN m.out.v ELSE basic.basic_profit
        r == IF ExplainerRaises("profit", "default")
             THEN ProfitExceptResponse(req, m)
             ELSE WithNaN(
                    WithFeatures(
                      Success("profit", req, predicted_profit,
                              Profitability(predicted_profit, basic.total_cost, is_nan),
                              PROFIT_CONFIDENCE, get_explanation("profit", "default"),
                              IF accepted THEN "model" ELSE "fallback",
                              IF use_model THEN m.out ELSE Absent,
                              IF use_model THEN "predict" ELSE "none"),
                      IF use_model THEN features ELSE <<>>),
                    is_nan)
    IN WithEncoder(r, encoder_out)

ProfitRequests ==
    [ crop : {"rice", "saffron"}, area_hectares : {2}, cost_per_hectare : {0, 30000},
      expected_yield : {10, 40}, market_price : {2000} ]

ProfitModels ==
    [ encoders : {EmptyDict, [crop |-> <<"cotton", "rice">>]},
      out : {Raises, Returns(2500000), ReturnsNaN} ]

CalculateProfit ==
    /\ Accepting
    /\ \E req \in ProfitRequests, m \in ProfitModels :
          resp' = calculate_profit(req, get_all(models, "profit"), m)
    /\ UNCHANGED <<paths, outage, water_model, models, loaded, ld, result, fetches, phase>>

-----------------------------------------------------------------------------
(* Image endpoints: app/routers/soil.py, soil_health.py, crop.py, plant_disease.py *)

\* settings.ALLOWED_IMAGE_TYPES
ALLOWED_IMAGE_TYPES == {"image/jpeg", "image/png", "image/jpg"}

\* the fields class Settings declares (config.py:11-100)
SettingsFields ==
    { "APP_NAME", "APP_VERSION", "DEBUG", "API_PREFIX", "ALLOWED_ORIGINS",
      "MAX_IMAGE_SIZE", "ALLOWED_IMAGE_TYPES", "MODEL_PATHS" }

\* soil.py:16-27, the training order of the soil CNN's classes
SOIL_CLASSES ==
    << "Alluvial soil", "Black Soil", "Cinder Soil", "Clayey soils", "Laterite soil",
       "Loamy soil", "Peat Soil", "Sandy loam", "Sandy soil", "Yellow Soil" >>

\* soil_health.py:77, the local list indexed with the same model's argmax
soil_classes == << "black", "red", "alluvial", "sandy" >>

\* the uploads: declared content type, and what the bytes are
ImageUploads == [content_type : {"image/png", "text/plain"}, image : {"valid", "empty", "corrupt"}]

\* what the soil CNN's predict does: raise, or return scores whose argmax is the index
SoilModelOutcomes == {Raises} \cup {Returns(idx) : idx \in 0..(Len(SOIL_CLASSES) - 1)}

\* a handler whose only handler is `except Exception`: an HTTPException raised inside
\* the try block is an Exception, so its status is replaced by 500
CaughtByExceptException(r) == [r EXCEPT !.status = IF r.success THEN @ ELSE 500]

\* a handler with `except HTTPException: raise` first: the status is kept
ReraisedHttpException(r) == r

\* the try block of detect_soil_type (soil.py:133-223); an exception that is no
\* HTTPException ends as HTTPException(500) (soil.py:227-229)
detect_soil_type(req, model, out) ==
    IF req.content_type \notin ALLOWED_IMAGE_TYPES THEN HttpError("soil", req, 400, Absent, "none")
    ELSE IF req.image = "empty" THEN HttpError("soil", req, 400, Absent, "none")
    ELSE IF req.image # "valid" THEN HttpError("soil", req, 400, Absent, "none")
    ELSE IF model = None THEN HttpError("soil", req, 503, Absent, "none")
    ELSE IF out.kind = "raise" THEN HttpError("soil", req, 500, out, "predict")
    ELSE IF out.v + 1 > Len(SOIL_CLASSES) THEN HttpError("soil", req, 500, out, "predict")
    ELSE Success("soil", req, out.v, SOIL_CLASSES[out.v + 1], 0,
                 get_explanation("soil", SOIL_CLASSES[out.v + 1]), "model", out, "predict")

\* soil_health.py:123-158
infer_soil_health_from_type(soil_type) ==
    IF soil_type = "black" THEN "good"
    ELSE IF soil_type = "alluvial" THEN "good"
    ELSE IF soil_type = "red" THEN "moderate"
    ELSE IF soil_type = "sandy" THEN "poor"
    ELSE "moderate"

\* the try block of assess_soil_health_from_image (soil_health.py:58-103)
SoilHealthTry(req, model, out) ==
    IF req.content_type \notin ALLOWED_IMAGE_TYPES
    THEN HttpError("soil_health_image", req, 400, Absent, "none")
    ELSE IF model = None THEN HttpError("soil_health_image", req, 503, Absent, "none")
    ELSE IF req.image # "valid"
    THEN \* Image.open raises
         HttpError("soil_health_image", req, 500, Absent, "none")
    ELSE IF out.kind = "raise" THEN HttpError("soil_health_image", req, 500, out, "predict")
    ELSE IF out.v + 1 > Len(soil_classes)
    THEN \* soil_classes[idx]: IndexError
         HttpError("soil_health_image", req, 500, out, "predict")
    ELSE Success("soil_health_image", req, out.v, soil_classes[out.v + 1], 0,
                 get_explanation("soil_health",
                                 infer_soil_health_from_type(soil_classes[out.v + 1])),
                 "model", out, "predict")

\* assess_soil_health_from_image: the only handler is `except Exception` (105-107)
assess_soil_health_from_image(req, model, out) ==
    CaughtByExceptException(SoilHealthTry(req, model, out))

\* the try block of recommend_crop_from_soil_image (crop.py:124-154).  With a model
\* that predicts, line 135 reads settings.SOIL_CLASSES, which Settings does not
\* declare: AttributeError
SoilImageCropTry(req, model, out) ==
    IF req.content_type \notin ALLOWED_IMAGE_TYPES
    THEN HttpError("crop_soil_image", req, 400, Absent, "none")
    ELSE IF model = None THEN HttpError("crop_soil_image", req, 503, Absent, "none")
    ELSE IF req.image # "valid"
    THEN \* image_processor.load_and_preprocess raises ValueError
         HttpError("crop_soil_image", req, 500, Absent, "none")
    ELSE IF out.kind = "raise" THEN HttpError("crop_soil_image", req, 500, out, "predict")
    ELSE IF "SOIL_CLASSES" \notin SettingsFields
    THEN HttpError("crop_soil_image", req, 500, out, "predict")
    ELSE HttpError("crop_soil_image", req, 400, out, "predict")

\* recommend_crop_from_soil_image: the only handler is `except Exception` (156-158)
recommend_crop_from_soil_image(req, model, out) ==
    CaughtByExceptException(SoilImageCropTry(req, model, out))

\* what the plant-disease model's call does: raise, or give a label that does or
\* does not contain "healthy"
PlantModelOutcomes == {Raises, Returns(0), Returns(1)}

\* detect_plant_disease (plant_disease.py:72-153); torch: the import at lines 15-18
\* succeeded.  HTTPException is re-raised (145-146)
detect_plant_disease(req, torch, model, processor, out) ==
    IF ~torch THEN HttpError("plant_disease", req, 503, Absent, "none")
    ELSE IF req.content_type \notin ALLOWED_IMAGE_TYPES
    THEN HttpError("plant_disease", req, 400, Absent, "none")
    ELSE IF model = None \/ processor = None
    THEN HttpError("plant_disease", req, 503, Absent, "none")
    ELSE IF req.image # "valid" THEN HttpError("plant_disease", req, 500, Absent, "none")
    ELSE IF out.kind = "raise" THEN HttpError("plant_disease", req, 500, out, "predict")
    ELSE Success("plant_disease", req, out.v, IF out.v = 0 THEN "Healthy" ELSE "Diseased", 0,
                 get_explanation("plant_disease", IF out.v = 0 THEN "healthy" ELSE "disease"),
                 "model", out, "predict")

DetectSoilType ==
    /\ Accepting
    /\ \E req \in ImageUploads, out \in SoilModelOutcomes :
          resp' = ReraisedHttpException(
                      detect_soil_type(req, get_model(models, "soil_cnn", "model"), out))
    /\ UNCHANGED <<paths, outage, water_model, models, loaded, ld, result, fetches, phase>>

AssessSoilHealthFromImage ==
    /\ Accepting
    /\ \E req \in ImageUploads, out \in SoilModelOutcomes :
          resp' = assess_soil_health_from_image(req, get_model(models, "soil_cnn", "model"), out)
    /\ UNCHANGED <<paths, outage, water_model, models, loaded, ld, result, fetches, phase>>

RecommendCropFromSoilImage ==
    /\ Accepting
    /\ \E req \in ImageUploads, out \in SoilModelOutcomes :
          resp' = recommend_crop_from_soil_image(req, get_model(models, "soil_cnn", "model"), out)
    /\ UNCHANGED <<paths, outage, water_model, models, loaded, ld, result, fetches, phase>>

DetectPlantDisease ==
    /\ Accepting
    /\ \E req \in ImageUploads, torch \in BOOLEAN, out \in PlantModelOutcomes :
          resp' = ReraisedHttpException(
                      detect_plant_disease(req, torch,
                                           get_model(models, "plant_disease", "model"),
                                           get_model(models, "plant_disease", "processor"),
                                           out))
    /\ UNCHANGED <<paths, outage, water_model, models, loaded, ld, result, fetches, phase>>

-----------------------------------------------------------------------------
(* /health, /warmup and direct reads of the registry : app/main.py, loader.py *)

\* a read that creates the group it did not find (dict.setdefault)
CatalogAfterReadSetdefault(cat, d) == IF d \in DOMAIN cat THEN cat ELSE ResetGroup(cat, d)

\* self._models.get(...) leaves the dict as it is
CatalogAfterRead(cat, d) == cat

\* what a caller of a getter holds afterwards
WithReturned(r, obj) == [r EXCEPT !.returned = obj]

\* a plain JSON body with HTTP 200 (no PredictionResponse)
PlainResponse(domain, req) ==
    Success(domain, req, 0, "none", 0, get_explanation("none", "none"), "none",
            Absent, "none")

\* names a caller may pass to the getters: the configured ones and one that is not
LookupDomains == DOMAIN MODEL_PATHS \cup {"unknown"}
LookupComponents == {"model", "scaler", "encoder", "encoders", "unknown"}

\* GET /health : soil_model_loaded = get_model("soil_cnn", "model") is not None
Health ==
    /\ Accepting
    /\ resp' = WithReturned(PlainResponse("health", EmptyDict),
                            get_model(models, "soil_cnn", "model") # None)
    /\ models' = CatalogAfterRead(models, "soil_cnn")
    /\ UNCHANGED <<paths, outage, water_model, loaded, ld, result, fetches, phase>>

\* GET /api/v1/warmup : returns the memory usage, touches nothing
Warmup ==
    /\ Accepting
    /\ resp' = PlainResponse("warmup", EmptyDict)
    /\ UNCHANGED <<paths, outage, water_model, models, loaded, ld, result, fetches, phase>>

\* model_loader.get_model(model_name, component)
LookupModel ==
    /\ Accepting
    /\ \E d \in LookupDomains, c \in LookupComponents :
          /\ resp' = WithReturned(
                         PlainResponse("get_model", [model_name |-> d, component |-> c]),
                         get_model(models, d, c))
          /\ models' = CatalogAfterRead(models, d)
    /\ UNCHANGED <<paths, outage, water_model, loaded, ld, result, fetches, phase>>

\* model_loader.get_all(model_name)
LookupAll ==
    /\ Accepting
    /\ \E d \in LookupDomains :
          /\ resp' = WithReturned(PlainResponse("get_all", [model_name |-> d]),
                                  get_all(models, d))
          /\ models' = CatalogAfterRead(models, d)
    /\ UNCHANGED <<paths, outage, water_model, loaded, ld, result, fetches, phase>>

-----------------------------------------------------------------------------
(* Specification *)

-----------------------------------------------------------------------------
(* Routing: app/main.py include_router and the decorators of the routers; every
   router is mounted under settings.API_PREFIX, "/api/v1" *)

\* the GET routes of the application and the top-level keys of what each returns
GetRoutes ==
    ( "/" :> {"name", "version", "status", "docs"} ) @@
    ( "/health" :> {"status", "version", "memory", "soil_model_loaded"} ) @@
    ( "/api/v1/warmup" :> {"status", "memory"} ) @@
    ( "/api/v1/crop/list" :> {"success", "crops"} ) @@
    ( "/api/v1/yield/crops" :> {"crops"} ) @@
    ( "/api/v1/yield/seasons" :> {"seasons"} ) @@
    ( "/api/v1/location/states" :> {"states"} ) @@
    ( "/api/v1/location/subdivisions" :> {"subdivisions"} )

\* the POST routes of the application
PostRoutes ==
    { "/api/v1/aqi/predict", "/api/v1/co2/predict", "/api/v1/crop/recommend",
      "/api/v1/crop/recommend-from-soil-image", "/api/v1/flood/predict",
      "/api/v1/ndvi/analyze", "/api/v1/plant-disease/detect", "/api/v1/price/predict",
      "/api/v1/profit/calculate", "/api/v1/rainfall/predict", "/api/v1/soil/detect",
      "/api/v1/soil-health/assess", "/api/v1/soil-health/assess-from-image",
      "/api/v1/storm/predict", "/api/v1/water/calculate", "/api/v1/yield/predict",
      "/api/v1/location/reverse" }

\* the paths a client asks for with GET: the listings, the growth-stages listing
\* tests/test_api.py asks for, and a path that only takes POST
GetPaths ==
    { "/api/v1/crop/list", "/api/v1/yield/crops", "/api/v1/yield/seasons",
      "/api/v1/location/states", "/api/v1/location/subdivisions",
      "/api/v1/water/growth-stages", "/api/v1/water/calculate" }

\* the router's answer to GET path: the handler's body, 405 when the path is
\* registered for another method only, 404 when it is not registered
get(path) ==
    IF path \in DOMAIN GetRoutes
    THEN WithReturned(PlainResponse("GET", [path |-> path]), GetRoutes[path])
    ELSE IF path \in PostRoutes
    THEN HttpError("GET", [path |-> path], 405, Absent, "none")
    ELSE HttpError("GET", [path |-> path], 404, Absent, "none")

Get ==
    /\ Accepting
    /\ \E path \in GetPaths : resp' = get(path)
    /\ UNCHANGED <<paths, outage, water_model, models, loaded, ld, result, fetches, phase>>

Init ==
    /\ paths \in Configs
    /\ outage \in IF paths = NoPaths THEN {{}} ELSE Outages
    /\ water_model \in BOOLEAN
    /\ models = EmptyDict
    /\ loaded = FALSE
    /\ ld = [t \in Threads |-> Idle]
    /\ result = [t \in Threads |-> "none"]
    /\ fetches = 0
    /\ phase = "init"
    /\ resp = NoResponse

Next ==
    \/ Startup
    \/ DirectLoad("main")
    \/ BeginGroup("main")
    \/ LoadComponent("main")
    \/ FinishLoad("main")
    \/ Reply
    \/ PredictAqi
    \/ PredictFlood
    \/ PredictPrice
    \/ PredictYield
    \/ CalculateWater
    \/ RecommendCrop
    \/ AnalyzeNdvi
    \/ PredictStorm
    \/ PredictCo2
    \/ PredictRainfall
    \/ CalculateProfit
    \/ DetectSoilType
    \/ AssessSoilHealthFromImage
    \/ RecommendCropFromSoilImage
    \/ DetectPlantDisease
    \/ Get
    \/ Health
    \/ Warmup
    \/ LookupModel
    \/ LookupAll

Spec == Init /\ [][Next]_vars

-----------------------------------------------------------------------------
(* Properties *)

\* the call of load_all_models made by the main thread has returned or raised
CallEnded == ld["main"].pc = "idle" /\ result["main"] \in {"completed", "raised", "skipped"}

\* the (domain, component) pairs of a configuration
ConfiguredTriples(cfg) == UNION {{<<d, c>> : c \in DOMAIN cfg[d]} : d \in DOMAIN cfg}

\* no group of the catalog holds a component
NoComponentLoaded(cat) == \A d \in DOMAIN cat : DOMAIN cat[d] = {}

\* a bundle that holds every component a router looks for
FullBundle == [model |-> "model", scaler |-> "scaler", encoder |-> "encoder",
               encoders |-> "encoders"]

\* the routers that read their bundle from the registry
RegistryDomains == {"aqi", "flood", "price", "yield", "crop", "ndvi"}

\* every response a domain's router can give when its model is loaded and its
\* prediction succeeded and was used
ModelPathResponses(d) ==
    LET all ==
          CASE d = "aqi" ->
                 {predict_aqi(r, FullBundle, o) : r \in AqiRequests, o \in AqiModelOutcomes}
            [] d = "flood" ->
                 {predict_flood_risk(r, FullBundle, m) : r \in FloodRequests, m \in FloodModels}
            [] d = "price" ->
                 {predict_price(r, FullBundle, m) : r \in PriceRequests, m \in PriceModels}
            [] d = "yield" ->
                 {predict_yield(r, FullBundle, m) : r \in YieldRequests, m \in YieldModels}
            [] d = "water" ->
                 {calculate_water_requirement(r, TRUE, o) :
                      r \in WaterRequests, o \in WaterModelOutcomes}
            [] d = "crop" ->
                 {recommend_crop(r, FullBundle, m) : r \in CropRequests, m \in CropModels}
            [] d = "ndvi" ->
                 {analyze_ndvi(r, FullBundle, m) : r \in NdviRequests, m \in NdviModels}
            [] OTHER -> {}
    IN {r \in all : r.success /\ r.path = "model"}

\* C1: a successful response whose value came from the rule-based fallback reports
\* a strictly lower confidence than every response of the same domain whose value
\* came from a successful model prediction.
C1_FallbackConfidenceLower ==
    (resp.success /\ resp.path = "fallback")
        => \A r \in ModelPathResponses(resp.domain) : resp.confidence < r.confidence

\* C2: a request of any domain whose registry bundle is empty or absent is answered
\* with HTTP 200 and success; no error status comes out of the no-model path.
C2_EmptyBundleStillAnswers ==
    (resp.domain # "none" /\ ~Truthy(get_all(models, resp.domain)))
        => (resp.status = 200 /\ resp.success)

\* C3: when the registry bundle of a domain is absent or holds no "model" (also
\* when it holds only a scaler and/or an encoder), the router answers with success
\* from its rule-based estimator; /crop/recommend does so for every subset of
\* {model, scaler, encoder} that loaded.
C3_NoModelGoesToFallback ==
    /\ (resp.domain \in RegistryDomains /\ ~Has(get_all(models, resp.domain), "model"))
          => (resp.status = 200 /\ resp.success /\ resp.path = "fallback")
    /\ (resp.domain = "crop" /\ ~Has(get_all(models, "crop"), "encoder"))
          => (resp.status = 200 /\ resp.success)

\* C4: an exception raised by the predictor's predict / predict_proba is caught and
\* the request is still answered with success and a fallback value.
C4_PredictorExceptionCaught ==
    (resp.domain # "none" /\ resp.model_out.kind = "raise")
        => (resp.status = 200 /\ resp.success /\ resp.path = "fallback")

\* C5: Scenario C.  With an AQI model whose predict raises, /aqi/predict answers
\* with success, the value of the fallback estimator, the category of that value and
\* confidence 0.75.
C5_AqiModelRaises ==
    (resp.domain = "aqi" /\ Has(get_all(models, "aqi"), "model")
        /\ resp.model_out.kind = "raise")
        => /\ resp.status = 200 /\ resp.success
           /\ resp.path = "fallback"
           /\ resp.value = calculate_aqi_fallback(resp.req)
           /\ resp.bucket = get_aqi_category(resp.value)
           /\ resp.confidence = 75

C5_Witness ==
    /\ resp.domain = "aqi" /\ Has(get_all(models, "aqi"), "model")
    /\ resp.model_out.kind = "raise"
    /\ resp.req.pm25 = 1504 /\ resp.value = 2000 /\ resp.bucket = "unhealthy"
    /\ resp.confidence = 75

\* C6: Scenario B.  With an AQI model that returns 42.0, /aqi/predict invokes the
\* model and reports aqi_value 42.0, category_code "good" and confidence 0.85.
C6_AqiModelAccepted ==
    (resp.domain = "aqi" /\ Has(get_all(models, "aqi"), "model")
        /\ resp.model_out = Returns(420))
        => /\ resp.invoked = "predict"
           /\ resp.value = 420
           /\ resp.bucket = "good"
           /\ resp.confidence = 85

ScenarioA == [rainfall_mm |-> 250, river_level |-> 8, elevation |-> 40, flood_history |-> 3]

\* C7: Scenario A.  Flood request (250 mm, river 8, elevation 40, history 3) with no
\* flood model: risk_level is "moderate" or "high" as the breakpoints give, and the
\* confidence is a fallback constant lower than the flood model-path confidence.
C7_FloodScenarioA ==
    (resp.domain = "flood" /\ resp.req = ScenarioA
        /\ ~Has(get_all(models, "flood"), "model"))
        => /\ resp.success
           /\ resp.bucket \in {"moderate", "high"}
           /\ resp.bucket = (IF resp.value >= 700 THEN "high"
                             ELSE IF resp.value >= 400 THEN "moderate" ELSE "low")
           /\ \A r \in ModelPathResponses("flood") : resp.confidence < r.confidence

\* C8: a (domain, component) whose fetch or deserialization fails does not abort
\* load_all_models: once the call has ended every other configured component is in
\* the catalog, the failed slots are absent from bundles that exist, and the call
\* did not raise.
C8_PartialLoad ==
    (CallEnded /\ paths # NoPaths)
        => /\ result["main"] # "raised"
           /\ \A t \in ConfiguredTriples(paths) :
                 /\ get_all(models, t[1]) # None
                 /\ t \notin outage => get_model(models, t[1], t[2]) = Predictor(paths[t[1]][t[2]])
                 /\ t \in outage => get_model(models, t[1], t[2]) = None

C8_Witness ==
    /\ CallEnded
    /\ outage = {<<"crop", "model">>, <<"crop", "encoder">>}
    /\ DOMAIN get_all(models, "crop") = {"scaler"}
    /\ get_model(models, "yield", "encoders") # None

\* C9: once a call of load_all_models has completed (the loaded flag is set), a
\* later call fetches nothing and leaves the catalog and the flag as they are.
C9_LoadIdempotent ==
    [][loaded => /\ models' = models
                 /\ loaded' = loaded
                 /\ fetches' = fetches
                 /\ ld' = ld]_vars

C9_Witness == loaded /\ result["main"] = "skipped" /\ fetches > 0

\* C10: when every configured component failed to load, load_all_models raises
\* instead of completing.
C10_TotalUnavailabilityRaises ==
    (CallEnded /\ NoComponentLoaded(models)) => result["main"] = "raised"

\* every configured component failed to load
AllDown == paths = MODEL_PATHS /\ outage = Triples

\* C11: after load_all_models has returned, the loaded flag is true, whether the
\* components were loaded or only attempted (some or all loads failed).
C11_LoadedAfterReturn ==
    \A t \in Threads :
        (ld[t].pc = "idle" /\ result[t] \in {"completed", "skipped"}) => loaded

C11_Witness ==
    /\ AllDown
    /\ result["main"] = "completed"
    /\ fetches = Cardinality(Triples)
    /\ NoComponentLoaded(models)
    /\ loaded

\* C12: the catalog is populated before any request is served, and when the call
\* of load_all_models made at startup raised, the service does not go on to answer
\* prediction requests.
C12_StartupOrdering ==
    resp.domain # "none"
        => /\ \A d \in DOMAIN paths : get_all(models, d) # None
           /\ result["main"] # "raised"

\* the load phase is over: a call of load_all_models has returned
LoadPhaseOver == ld["main"].pc = "idle" /\ result["main"] \in {"completed", "skipped"}

\* C13: after the load phase completes, every domain configured in MODEL_PATHS has
\* a catalog entry: get_all returns a bundle (empty when all its component loads
\* failed), never absent.
C13_DomainCatalog ==
    LoadPhaseOver
        => \A d \in DOMAIN paths :
              /\ get_all(models, d) # None
              /\ DOMAIN get_all(models, d) \subseteq DOMAIN paths[d]
              /\ (\A c \in DOMAIN paths[d] : <<d, c>> \in outage)
                    => get_all(models, d) = EmptyDict

C13_Witness ==
    /\ LoadPhaseOver
    /\ \A c \in DOMAIN paths["crop"] : <<"crop", c>> \in outage
    /\ get_all(models, "crop") = EmptyDict
    /\ Has(get_all(models, "aqi"), "model")

-----------------------------------------------------------------------------
(* Two threads calling load_all_models without coordination *)

\* a thread calls model_loader.load_all_models() at any moment
CallLoad(t) ==
    /\ ld[t].pc = "idle"
    /\ EnterLoad(t)
    /\ UNCHANGED <<paths, outage, water_model, models, loaded, fetches, phase, resp>>

InitConcurrent ==
    /\ paths = MODEL_PATHS
    /\ outage \in {{}, {<<"aqi", "model">>}, {<<"crop", "scaler">>, <<"yield", "model">>}}
    /\ water_model = FALSE
    /\ models = EmptyDict
    /\ loaded = FALSE
    /\ ld = [t \in Threads |-> Idle]
    /\ result = [t \in Threads |-> "none"]
    /\ fetches = 0
    /\ phase = "init"
    /\ resp = NoResponse

NextConcurrent ==
    \E t \in Threads : CallLoad(t) \/ BeginGroup(t) \/ LoadComponent(t) \/ FinishLoad(t)

SpecConcurrent == InitConcurrent /\ [][NextConcurrent]_vars

\* C14: under any interleaving of load_all_models calls, a (domain, component) slot
\* that holds a predictor keeps holding that same predictor: a reader never sees a
\* populated slot become absent or be replaced.
C14_CatalogImmutable ==
    [][\A t \in Triples :
          get_model(models, t[1], t[2]) # None
              => get_model(models', t[1], t[2]) = get_model(models, t[1], t[2])]_vars

-----------------------------------------------------------------------------
(* A configuration that names artifacts of other file types *)

\* MODEL_PATHS with crop/scaler and ndvi/model given as .joblib and .onnx files
UnsupportedPaths ==
    [MODEL_PATHS EXCEPT !["crop"]["scaler"] = Art("crop/crop_scaler", ".joblib"),
                        !["ndvi"]["model"] = Art("ndvi/ndvi_rf", ".onnx")]

InitUnsupported ==
    /\ paths = UnsupportedPaths
    /\ outage \in Outages
    /\ water_model = FALSE
    /\ models = EmptyDict
    /\ loaded = FALSE
    /\ ld = [t \in Threads |-> Idle]
    /\ result = [t \in Threads |-> "none"]
    /\ fetches = 0
    /\ phase = "init"
    /\ resp = NoResponse

NextLoader ==
    \/ Startup
    \/ DirectLoad("main")
    \/ BeginGroup("main")
    \/ LoadComponent("main")
    \/ FinishLoad("main")

SpecUnsupported == InitUnsupported /\ [][NextLoader]_vars

\* the file types load_all_models has a loader for
SupportedExtensions == {".pkl", ".h5", ".keras"}

\* C16: an artifact whose extension is none of .pkl, .h5, .keras leaves its slot
\* absent; the call raises nothing, fetches nothing for it, and still processes the
\* other components of the same domain and of the other domains.
C16_UnsupportedExtension ==
    (ld["main"].pc = "idle" /\ result["main"] # "none")
        => /\ result["main"] # "raised"
           /\ fetches = Cardinality({t \in ConfiguredTriples(paths) :
                                        paths[t[1]][t[2]].ext \in SupportedExtensions})
           /\ \A t \in ConfiguredTriples(paths) :
                 IF paths[t[1]][t[2]].ext \notin SupportedExtensions
                 THEN get_model(models, t[1], t[2]) = None
                 ELSE (get_model(models, t[1], t[2]) # None) <=> (t \notin outage)

C16_Witness ==
    /\ LoadPhaseOver
    /\ paths["crop"]["scaler"].ext = ".joblib"
    /\ outage = {<<"crop", "model">>}
    /\ DOMAIN get_all(models, "crop") = {"encoder"}
    /\ get_all(models, "ndvi") = EmptyDict
    /\ get_model(models, "yield", "model") # None
    /\ fetches = 24

-----------------------------------------------------------------------------
(* Feature preparation and output validation *)

\* C17: width reconciliation.  With a model loaded for flood, storm or rainfall and a
\* predictor declaring width W for a canonical vector of length N, the predictor is
\* invoked, and the row it receives has the canonical entries in front, is W long when
\* a width is declared (zeros behind the canonical entries when W > N, the first W
\* entries when W < N) and is the canonical vector itself when none is declared.  A
\* declared width different from N never prevents the invocation.
C17_WidthReconciliation ==
    (resp.domain \in {"flood", "storm", "rainfall"} /\ resp.status = 200
        /\ Has(get_all(models, resp.domain), "model"))
        => LET req == resp.req
               canonical ==
                   IF resp.domain = "flood"
                   THEN <<req.rainfall_mm, req.river_level, req.elevation, req.flood_history>>
                   ELSE IF resp.domain = "storm"
                   THEN <<req.month, req.wind_speed, req.pressure, req.humidity>>
                   ELSE [k \in 1..RAINFALL_WIDTH |-> IF k = 1 THEN req.month
                                                     ELSE IF k = 2 THEN req.year ELSE 0]
               N == Len(canonical)
               W == resp.declared
               kept == IF W = 0 THEN N ELSE Min(W, N)
               \* rainfall slots 3..5 and 17 hold weather readings and the encoded
               \* subdivision, whatever they are
               fixed == IF resp.domain = "rainfall"
                        THEN (1..RAINFALL_WIDTH) \ {3, 4, 5, 17} ELSE 1..N
           IN /\ resp.invoked # "none"
              /\ Len(resp.features) = (IF W = 0 THEN N ELSE W)
              /\ \A k \in 1..Len(resp.features) :
                    IF k <= kept
                    THEN k \in fixed => resp.features[k] = canonical[k]
                    ELSE resp.features[k] = 0

\* C18: VALIDATING.  A CO2, flood or price model output that is not-a-number or
\* infinite is rejected: the response comes from the rule-based fallback, and the
\* value returned is not the NaN itself.
C18_InvalidOutputRejected ==
    (resp.domain \in {"co2", "flood", "price"} /\ resp.invoked # "none"
        /\ resp.model_out.kind \in {"nan", "inf"})
        => /\ resp.path = "fallback"
           /\ ~resp.value_nan

\* C19: scaler application.  In the CO2 and crop routers a scaler whose declared width
\* differs from the feature row's width is skipped (the row reaches the predictor
\* unscaled), and neither such a mismatch nor a scaler whose transform raises fails the
\* request: the answer is still a successful HTTP 200.
C19_ScalerNeverFailsRequest ==
    (resp.domain \in {"co2", "crop"} /\ resp.scaler_out \in {"mismatch", "raise"})
        => /\ resp.status = 200
           /\ resp.success
           /\ resp.scaler_out = "mismatch" => ~resp.scaled /\ resp.invoked # "none"

\* C20: encoder failure.  In the AQI, price and profit routers, when the bundle has an
\* encoder and its transform raises for the request's categorical value (a category it
\* has not seen), the model is still invoked, with a row whose categorical slot holds
\* the placeholder zero and whose other request-derived slots are unchanged.
C20_EncoderFailureKeepsZero ==
    (resp.domain \in {"aqi", "price", "profit"} /\ resp.encoder_out = "raise")
        => LET req == resp.req
               f == resp.features
           IN /\ resp.invoked = "predict"
              /\ CASE resp.domain = "aqi" ->
                        /\ Len(f) = 12
                        /\ f[12] = 0
                        /\ <<f[1], f[2], f[3]>> = <<req.pm25, req.pm10, req.no2>>
                   [] resp.domain = "price" ->
                        /\ Len(f) = 6
                        /\ f[1] = 0
                        /\ <<f[3], f[4], f[5], f[6]>> = <<req.month, req.year, 0, 0>>
                   [] resp.domain = "profit" ->
                        /\ f[1] = 0
                        /\ SubSeq(f, 2, 6) = <<req.area_hectares, req.cost_per_hectare,
                                               req.expected_yield, req.market_price, 0>>

-----------------------------------------------------------------------------
(* The threshold classifiers as pure functions: app/utils/helpers.py and the routers *)

\* helpers.categorize_aqi with `<` in place of `<=`
categorize_aqiStrict(aqi_value) ==
    IF aqi_value < 500 THEN "good"
    ELSE IF aqi_value < 1000 THEN "moderate"
    ELSE IF aqi_value < 1500 THEN "unhealthy_sensitive"
    ELSE IF aqi_value < 2000 THEN "unhealthy"
    ELSE IF aqi_value < 3000 THEN "very_unhealthy"
    ELSE "hazardous"

\* helpers.categorize_aqi(aqi_value)["category"], the value in tenths
categorize_aqi(aqi_value) ==
    IF aqi_value <= 500 THEN "good"
    ELSE IF aqi_value <= 1000 THEN "moderate"
    ELSE IF aqi_value <= 1500 THEN "unhealthy_sensitive"
    ELSE IF aqi_value <= 2000 THEN "unhealthy"
    ELSE IF aqi_value <= 3000 THEN "very_unhealthy"
    ELSE "hazardous"

\* helpers.categorize_risk(probability)["level"], the probability in hundredths
categorize_risk(probability) ==
    IF probability >= 70 THEN "high"
    ELSE IF probability >= 40 THEN "moderate"
    ELSE "low"

\* probabilities handed to the risk classifiers, in hundredths: the unit interval
\* and some way beyond it on both sides
RiskProbabilities == -20..120

\* AQI values handed to the classifiers, in tenths: 0.0 .. 12.0, two points around each
\* breakpoint, and values far above the last one
AqiValues ==
    (0..120) \cup { b + k : b \in {500, 1000, 1500, 2000, 3000}, k \in -20..20 }
             \cup {4000, 5000, 9999}

\* one call of the three risk classifiers on the same probability
ClassifyRisk ==
    /\ \E p \in RiskProbabilities :
          resp' = [ domain |-> "categorize_risk", value |-> p,
                    flood |-> FloodRiskLevel(p),
                    storm |-> StormRiskLevel(p * 10),
                    helper |-> categorize_risk(p) ]
    /\ UNCHANGED <<paths, outage, water_model, models, loaded, ld, result, fetches, phase>>

\* one call of the two AQI classifiers on the same value
ClassifyAqi ==
    /\ \E v \in AqiValues :
          resp' = [ domain |-> "categorize_aqi", value |-> v,
                    router |-> get_aqi_category(v),
                    helper |-> categorize_aqi(v) ]
    /\ UNCHANGED <<paths, outage, water_model, models, loaded, ld, result, fetches, phase>>

InitClassify ==
    /\ paths = MODEL_PATHS
    /\ outage = {}
    /\ water_model = FALSE
    /\ models = EmptyDict
    /\ loaded = FALSE
    /\ ld = [t \in Threads |-> Idle]
    /\ result = [t \in Threads |-> "none"]
    /\ fetches = 0
    /\ phase = "init"
    /\ resp = NoResponse

NextClassify == ClassifyRisk \/ ClassifyAqi

SpecClassify == InitClassify /\ [][NextClassify]_vars

\* C21: the flood, storm and helper risk classifications are exhaustive and monotonic.
\* Every probability gets exactly the bucket of the table (>= 0.7 high, >= 0.4
\* moderate, else low), and of two classified probabilities the larger one never
\* gets the safer bucket.
C21_RiskThresholds ==
    [][ \A f \in {"flood", "storm", "helper"} :
          LET rank == [low |-> 0, moderate |-> 1, high |-> 2] IN
          /\ resp'.domain = "categorize_risk"
                => resp'[f] = (IF resp'.value >= 70 THEN "high"
                               ELSE IF resp'.value >= 40 THEN "moderate" ELSE "low")
          /\ (resp.domain = "categorize_risk" /\ resp'.domain = "categorize_risk"
                 /\ resp'.value >= resp.value)
                => rank[resp'[f]] >= rank[resp[f]] ]_vars

C21_Witness ==
    /\ resp.domain = "categorize_risk"
    /\ resp.value = 69
    /\ resp.flood = "moderate" /\ resp.storm = "moderate" /\ resp.helper = "moderate"

\* C22: the AQI classification is the fixed table: <= 50 good, <= 100 moderate,
\* <= 150 unhealthy_sensitive, <= 200 unhealthy, <= 300 very_unhealthy, above 300
\* hazardous, the first breakpoint satisfied winning; the router's get_aqi_category
\* and helpers.categorize_aqi agree on every value.
C22_AqiTable ==
    resp.domain = "categorize_aqi"
        => LET breakpoints == << <<500, "good">>, <<1000, "moderate">>,
                                 <<1500, "unhealthy_sensitive">>, <<2000, "unhealthy">>,
                                 <<3000, "very_unhealthy">> >>
               satisfied == {k \in 1..Len(breakpoints) : resp.value <= breakpoints[k][1]}
               first == CHOOSE k \in satisfied : \A j \in satisfied : k <= j
               expected == IF satisfied = {} THEN "hazardous" ELSE breakpoints[first][2]
           IN /\ resp.router = expected
              /\ resp.helper = resp.router

C22_Witness ==
    resp.domain = "categorize_aqi" /\ resp.value = 3001 /\ resp.router = "hazardous"

\* C23: in every successful AQI, CO2, rainfall, flood and storm response, on the model
\* path, the fallback path and the exception path alike, the reported category is the
\* domain's threshold classification of the value reported in the same response.
C23_BucketFromValue ==
    (resp.domain \in {"aqi", "co2", "rainfall", "flood", "storm"} /\ resp.status = 200
        /\ ~resp.value_nan)
        => resp.bucket =
             CASE resp.domain = "aqi" -> get_aqi_category(resp.value)
               [] resp.domain = "co2" -> Co2Level(resp.value)
               [] resp.domain = "rainfall" -> RainfallCategory(resp.value)
               [] resp.domain = "flood" -> FloodRiskLevel(resp.value \div 10)
               [] resp.domain = "storm" -> StormRiskLevel(resp.value)

-----------------------------------------------------------------------------
(* Image endpoints *)

\* C24: image-classification domains have no heuristic substitute.  A well-formed
\* upload to soil detect, soil-health assess-from-image, crop
\* recommend-from-soil-image or plant-disease detect, made while the model the
\* endpoint requires is absent, is answered with HTTP 503 and no label: never with a
\* fabricated prediction, never with a generic 500.
C24_ImageServiceUnavailable ==
    LET soil_absent == get_model(models, "soil_cnn", "model") = None
        plant_absent == \/ get_model(models, "plant_disease", "model") = None
                        \/ get_model(models, "plant_disease", "processor") = None
    IN (/\ resp.domain \in {"soil", "soil_health_image", "crop_soil_image", "plant_disease"}
        /\ resp.req.content_type \in ALLOWED_IMAGE_TYPES
        /\ resp.req.image = "valid"
        /\ IF resp.domain = "plant_disease" THEN plant_absent ELSE soil_absent)
        => /\ resp.status = 503
           /\ ~resp.success
           /\ resp.bucket = "none"

-----------------------------------------------------------------------------
(* The rule-based estimators as functions of their input *)

\* soil_image_nutrient_mapper.SOIL_NUTRIENT_RANGES: (low, high) per nutrient; ph in
\* tenths, organic_carbon and ec in hundredths
SOIL_NUTRIENT_RANGES ==
    ( "Black Soil" :> [nitrogen |-> <<300, 550>>, phosphorus |-> <<25, 45>>,
                        potassium |-> <<250, 400>>, ph |-> <<65, 78>>,
                        organic_carbon |-> <<70, 120>>, ec |-> <<30, 80>>] @@
      "Red Soil" :> [nitrogen |-> <<150, 300>>, phosphorus |-> <<10, 25>>,
                        potassium |-> <<150, 250>>, ph |-> <<55, 65>>,
                        organic_carbon |-> <<30, 70>>, ec |-> <<20, 60>>] @@
      "Sandy Soil" :> [nitrogen |-> <<80, 180>>, phosphorus |-> <<5, 15>>,
                        potassium |-> <<80, 150>>, ph |-> <<50, 60>>,
                        organic_carbon |-> <<10, 40>>, ec |-> <<10, 40>>] @@
      "Alluvial Soil" :> [nitrogen |-> <<200, 400>>, phosphorus |-> <<20, 40>>,
                        potassium |-> <<200, 350>>, ph |-> <<60, 75>>,
                        organic_carbon |-> <<50, 100>>, ec |-> <<30, 70>>] )

\* random.randint(a, b) and round(random.uniform(a, b), n): any value of the range;
\* the two ends of the range stand for all of them
RandomIn(range) == {range[1], range[2]}

\* the dicts estimate_nutrients_from_soil_type(soil_type) can return (38-51)
estimate_nutrients_from_soil_type(soil_type) ==
    LET ranges == SOIL_NUTRIENT_RANGES[soil_type] IN
    [ nitrogen : RandomIn(ranges.nitrogen), phosphorus : RandomIn(ranges.phosphorus),
      potassium : RandomIn(ranges.potassium), ph : RandomIn(ranges.ph),
      organic_carbon : RandomIn(ranges.organic_carbon), ec : RandomIn(ranges.ec) ]

\* one call of an estimator: its name, its input and what it returned
Estimate(name, input, output) == [domain |-> name, req |-> input, value |-> output]

EstimateFloodRisk ==
    /\ \E req \in FloodRequests :
          resp' = Estimate("calculate_flood_risk_fallback", req,
                           calculate_flood_risk_fallback(req))
    /\ UNCHANGED <<paths, outage, water_model, models, loaded, ld, result, fetches, phase>>

EstimateStormRisk ==
    /\ \E req \in StormRequests :
          resp' = Estimate("estimate_storm_risk_fallback", req,
                           estimate_storm_risk_fallback(req))
    /\ UNCHANGED <<paths, outage, water_model, models, loaded, ld, result, fetches, phase>>

EstimateNutrients ==
    /\ \E soil_type \in DOMAIN SOIL_NUTRIENT_RANGES :
          \E out \in estimate_nutrients_from_soil_type(soil_type) :
              resp' = Estimate("estimate_nutrients_from_soil_type", soil_type, out)
    /\ UNCHANGED <<paths, outage, water_model, models, loaded, ld, result, fetches, phase>>

NextEstimators == EstimateFloodRisk \/ EstimateStormRisk \/ EstimateNutrients

SpecEstimators == InitClassify /\ [][NextEstimators]_vars

\* C25: every rule-based estimator is deterministic.  Of two successive invocations
\* of the same estimator on the same input, the second returns what the first
\* returned.
C25_EstimatorsDeterministic ==
    [][ (resp.domain = resp'.domain /\ resp.req = resp'.req) => resp'.value = resp.value ]_vars

-----------------------------------------------------------------------------
(* Behaviour the tests rely on *)

\* C26: whatever the registry holds and whatever the flood model does (absent,
\* raises, returns any number), /flood/predict answers 200 with success, a
\* flood_probability between 0 and 100 percent, and a risk_level that is low,
\* moderate or high.
C26_FloodAlwaysAnswers ==
    resp.domain = "flood"
        => /\ resp.status = 200
           /\ resp.success
           /\ ~resp.value_nan
           /\ resp.value >= 0 /\ resp.value <= 1000
           /\ resp.bucket \in {"low", "moderate", "high"}

C26_Witness ==
    /\ resp.domain = "flood"
    /\ resp.model_out = Returns(150)
    /\ resp.path = "model"
    /\ resp.value = 1000
    /\ resp.status = 200

\* C27: the water router exposes a growth-stages listing.  GET
\* /api/v1/water/growth-stages is a registered route answering 200 with a "stages"
\* field, whether or not the water model is available.
C27_GrowthStagesRoute ==
    (resp.domain = "GET" /\ resp.req.path = "/api/v1/water/growth-stages")
        => /\ resp.status = 200
           /\ "stages" \in resp.returned

-----------------------------------------------------------------------------
(* Reachability of the model paths *)

\* C28: the rainfall model path is reachable.  A rainfall request answered while the
\* bundle holds a model declaring 18 features whose predict returns a finite value v
\* reports rainfall_mm = v, the category the rainfall thresholds give for v, and the
\* model-path confidence 0.80.
C28_RainfallModelPath ==
    (resp.domain = "rainfall" /\ Has(get_all(models, "rainfall"), "model")
        /\ resp.declared = RAINFALL_WIDTH /\ resp.model_out.kind = "num")
        => /\ resp.path = "model"
           /\ resp.invoked = "predict"
           /\ resp.value = resp.model_out.v
           /\ resp.bucket = RainfallCategory(resp.model_out.v)
           /\ resp.confidence = RAINFALL_CONFIDENCE

\* C29: plant-disease detection can succeed.  After load_all_models has completed
\* from the configured MODEL_PATHS with every artifact available, the registry holds
\* both get_model("plant_disease", "model") and get_model("plant_disease",
\* "processor"), so /plant-disease/detect gets past its 503.
C29_PlantDiseaseReady ==
    (paths = MODEL_PATHS /\ outage = {} /\ loaded /\ CallEnded)
        => /\ get_model(models, "plant_disease", "model") # None
           /\ get_model(models, "plant_disease", "processor") # None

\* C30: for every class index the shared soil CNN can output (the ten classes of
\* soil.py's SOIL_CLASSES), /soil-health/assess-from-image answers a well-formed
\* upload with a soil type and a health status, as /soil/detect answers it with a
\* label: neither ends in an index error.
C30_SoilClassIndex ==
    (/\ resp.domain \in {"soil", "soil_health_image"}
     /\ resp.req.content_type \in ALLOWED_IMAGE_TYPES /\ resp.req.image = "valid"
     /\ resp.invoked = "predict"
     /\ resp.model_out.kind = "num" /\ resp.model_out.v \in 0..(Len(SOIL_CLASSES) - 1))
        => /\ resp.status = 200
           /\ resp.success
           /\ resp.bucket # "none"
           /\ resp.domain = "soil_health_image"
                 => resp.explanation.key \in {"good", "moderate", "poor"}

====
